---- MODULE Spec2Model ----
(***************************************************************************)
(* Model of the muletracker-cli monitor: the per-application monitor       *)
(* (monitorSingleApp with Client.GetLastCalledTime / GetRequestCount) and  *)
(* the bounded-concurrency, rate-limited fan-out (monitorAppsConcurrently).*)
(***************************************************************************)
EXTENDS Integers, Sequences, FiniteSets, Bags, TLC

\* ----------------------------------------------------------------- bounds
\* Longest application list handed to monitorAppsConcurrently.
MaxApps == 6
\* Clock steps per rate-limiter period in the runs that measure time.
StepsPerTick == 2
\* Longest list explored with the fine clock and every combination of backend
\* behaviours; longer lists run with one clock step per period and the mixed
\* backend.
MaxTimedApps == 3
\* Longest first series of a backend response in the single-call runs.
MaxRows == 2

\* Longest result collection handed to filterAppResults on its own.
MaxResults == 3
\* Longest answer of the applications endpoint in the runs of the command.
MaxDirApps == 3
\* Last instant of the clock in the runs of the session store, in half seconds.
MaxNow == 6

\* ------------------------------------------------------ program constants
concurrencyLimit == 5
\* 100 * time.Millisecond, the ticker period, in milliseconds.
TickPeriodMs == 100
\* time.Millisecond in nanoseconds.
Millisecond == 1000000

\* -------------------------------------------------------------- data model
\* A cell of a row of the JSON payload: a float64 as an integer count of
\* halves (h = 3 stands for 1.5), or a cell that does not decode to float64.
Null == [ok |-> FALSE, h |-> 0]
F(n) == [ok |-> TRUE, h |-> 2 * n]
Half(n) == [ok |-> TRUE, h |-> 2 * n + 1]
Nil == "<nil>"
\* fmt.Errorf("unsupported app type: %s", app.Target.Type)
ErrUnsupported(a) == "unsupported app type: " \o a.Type
ErrQueryLC == "error querying last called time"
ErrQueryRC == "error querying request count"

\* Go's float64 -> int conversion: truncation toward zero.
ToInt(c) == IF c.h >= 0 THEN c.h \div 2 ELSE 0 - ((0 - c.h) \div 2)

ZeroTime == [zero |-> TRUE, ns |-> 0]
\* time.Unix(0, nsec)
Unix(nsec) == [zero |-> FALSE, ns |-> nsec]
IsZero(t) == t.zero

\* anypoint.App: only the fields the monitor reads.
App(id, type, subtype) == [ID |-> id, Type |-> type, Subtype |-> subtype]
GetType(a) == IF a.Type = "MC" THEN a.Subtype ELSE a.Type
FilterCH1(a) == a.Type = "CLOUDHUB"
FilterRTF(a) == a.Type = "MC" /\ a.Subtype = "runtime-fabric"
FilterCH1OrRTF(a) == FilterCH1(a) \/ FilterRTF(a)

\* A backend answer: a transport/status/decoding error, or an InfluxDBResponse.
RespErr == [err |-> TRUE, Results |-> << >>]
RespOf(results) == [err |-> FALSE, Results |-> results]
Series(values) == [Values |-> values]
Result(series) == [Series |-> series]

\* Variant: the timestamp is read from the first row of the series.
GetLastCalledTimeFirstRow(app, resp) ==
  IF ~(FilterCH1(app) \/ FilterRTF(app))
    THEN [val |-> ZeroTime, err |-> ErrUnsupported(app), sent |-> FALSE]
  ELSE IF resp.err
    THEN [val |-> ZeroTime, err |-> ErrQueryLC, sent |-> TRUE]
  ELSE IF Len(resp.Results) > 0 /\ Len(resp.Results[1].Series) > 0
    THEN LET series == resp.Results[1].Series[1] IN
         IF Len(series.Values) > 0 /\ series.Values[1][1].ok
           THEN [val |-> Unix(ToInt(series.Values[1][1]) * Millisecond),
                 err |-> Nil, sent |-> TRUE]
           ELSE [val |-> ZeroTime, err |-> Nil, sent |-> TRUE]
  ELSE [val |-> ZeroTime, err |-> Nil, sent |-> TRUE]

\* Variant: an answer without a data point is reported as an error.
GetLastCalledTimeErrOnEmpty(app, resp) ==
  IF ~(FilterCH1(app) \/ FilterRTF(app))
    THEN [val |-> ZeroTime, err |-> ErrUnsupported(app), sent |-> FALSE]
  ELSE IF resp.err
    THEN [val |-> ZeroTime, err |-> ErrQueryLC, sent |-> TRUE]
  ELSE IF Len(resp.Results) > 0 /\ Len(resp.Results[1].Series) > 0
    THEN LET series == resp.Results[1].Series[1] IN
         IF Len(series.Values) > 0
           THEN LET lastVal == series.Values[Len(series.Values)][1] IN
                IF lastVal.ok
                  THEN [val |-> Unix(ToInt(lastVal) * Millisecond),
                        err |-> Nil, sent |-> TRUE]
                  ELSE [val |-> ZeroTime, err |-> Nil, sent |-> TRUE]
           ELSE [val |-> ZeroTime, err |-> ErrQueryLC, sent |-> TRUE]
  ELSE [val |-> ZeroTime, err |-> ErrQueryLC, sent |-> TRUE]

\* Client.GetLastCalledTime: value, error, and whether a query was sent.
GetLastCalledTime(app, resp) ==
  IF ~(FilterCH1(app) \/ FilterRTF(app))
    THEN [val |-> ZeroTime, err |-> ErrUnsupported(app), sent |-> FALSE]
  ELSE IF resp.err
    THEN [val |-> ZeroTime, err |-> ErrQueryLC, sent |-> TRUE]
  ELSE IF Len(resp.Results) > 0 /\ Len(resp.Results[1].Series) > 0
    THEN LET series == resp.Results[1].Series[1] IN
         IF Len(series.Values) > 0
           THEN LET lastVal == series.Values[Len(series.Values)][1] IN
                IF lastVal.ok
                  THEN [val |-> Unix(ToInt(lastVal) * Millisecond),
                        err |-> Nil, sent |-> TRUE]
                  ELSE [val |-> ZeroTime, err |-> Nil, sent |-> TRUE]
           ELSE [val |-> ZeroTime, err |-> Nil, sent |-> TRUE]
  ELSE [val |-> ZeroTime, err |-> Nil, sent |-> TRUE]

RECURSIVE SumValues(_)
\* the loop of GetRequestCount over series.Values
SumValues(values) ==
  IF values = << >> THEN 0
  ELSE LET entry == values[Len(values)] IN
       SumValues(SubSeq(values, 1, Len(values) - 1))
         + (IF entry[2].ok THEN ToInt(entry[2]) ELSE 0)

\* Variant: an application of another kind is queried with the CloudHub template.
GetRequestCountNoKindCheck(app, resp) ==
  IF resp.err
    THEN [val |-> 0, err |-> ErrQueryRC, sent |-> TRUE]
  ELSE IF Len(resp.Results) > 0 /\ Len(resp.Results[1].Series) > 0
    THEN [val |-> SumValues(resp.Results[1].Series[1].Values),
          err |-> Nil, sent |-> TRUE]
  ELSE [val |-> 0, err |-> Nil, sent |-> TRUE]

\* Client.GetRequestCount: value, error, and whether a query was sent.
GetRequestCount(app, resp) ==
  IF ~(FilterCH1(app) \/ FilterRTF(app))
    THEN [val |-> 0, err |-> ErrUnsupported(app), sent |-> FALSE]
  ELSE IF resp.err
    THEN [val |-> 0, err |-> ErrQueryRC, sent |-> TRUE]
  ELSE IF Len(resp.Results) > 0 /\ Len(resp.Results[1].Series) > 0
    THEN [val |-> SumValues(resp.Results[1].Series[1].Values),
          err |-> Nil, sent |-> TRUE]
  ELSE [val |-> 0, err |-> Nil, sent |-> TRUE]

LCWindow == "15m"
RCWindow == "24h"

\* fmt.Errorf("lastCalled error: %v, requestCount error: %v", err1, err2)
ErrPair(err1, err2) == "lastCalled error: " \o err1 \o ", requestCount error: " \o err2

\* Variant: the failure descriptor is set only when both calls fail.
BuildResultAnd(app, lc, rc) ==
  [AppID |-> app.ID, AppType |-> GetType(app),
   LastCalled |-> lc.val, RequestCount |-> rc.val,
   Err |-> IF lc.err # Nil /\ rc.err # Nil
             THEN ErrPair(lc.err, rc.err) ELSE Nil,
   LCWindow |-> LCWindow, RCWindow |-> RCWindow]

\* Variant: a failed result carries zero values.
BuildResultZeroOnErr(app, lc, rc) ==
  [AppID |-> app.ID, AppType |-> GetType(app),
   LastCalled |-> IF lc.err # Nil \/ rc.err # Nil THEN ZeroTime ELSE lc.val,
   RequestCount |-> IF lc.err # Nil \/ rc.err # Nil THEN 0 ELSE rc.val,
   Err |-> IF lc.err # Nil \/ rc.err # Nil
             THEN ErrPair(lc.err, rc.err) ELSE Nil,
   LCWindow |-> LCWindow, RCWindow |-> RCWindow]

\* The AppResult monitorSingleApp builds from the two returns.
BuildResult(app, lc, rc) ==
  [AppID |-> app.ID, AppType |-> GetType(app),
   LastCalled |-> lc.val, RequestCount |-> rc.val,
   Err |-> IF lc.err # Nil \/ rc.err # Nil
             THEN ErrPair(lc.err, rc.err) ELSE Nil,
   LCWindow |-> LCWindow, RCWindow |-> RCWindow]

\* monitorSingleApp as a function of the application and the two answers.
MonitorSingleApp(app, lcResp, rcResp) ==
  BuildResult(app, GetLastCalledTime(app, lcResp), GetRequestCount(app, rcResp))

\* strings.ToLower on the values of the --filter and --app-type flags.
ToLower(flag) ==
  CASE flag = "NonEmpty" -> "nonempty"
    [] flag = "EMPTY" -> "empty"
    [] flag = "CloudHub" -> "cloudhub"
    [] flag = "RTF" -> "rtf"
    [] OTHER -> flag

RECURSIVE KeepIf(_, _)
\* for _, r := range results { if keep(r) { filtered = append(filtered, r) } }
KeepIf(results, selector) ==
  IF results = << >> THEN << >>
  ELSE LET r == results[Len(results)]
           filtered == KeepIf(SubSeq(results, 1, Len(results) - 1), selector)
       IN IF \/ selector = "nonempty" /\ r.RequestCount > 0
             \/ selector = "empty" /\ r.RequestCount = 0
            THEN Append(filtered, r) ELSE filtered

RECURSIVE KeepIfNotNegative(_, _)
\* The loop of the variant filterAppResultsNotNegative.
KeepIfNotNegative(results, selector) ==
  IF results = << >> THEN << >>
  ELSE LET r == results[Len(results)]
           filtered == KeepIfNotNegative(SubSeq(results, 1, Len(results) - 1), selector)
       IN IF \/ selector = "nonempty" /\ r.RequestCount >= 0
             \/ selector = "empty" /\ r.RequestCount = 0
            THEN Append(filtered, r) ELSE filtered

RECURSIVE KeepIfPrepend(_, _)
\* The loop of the variant filterAppResultsPrepend.
KeepIfPrepend(results, selector) ==
  IF results = << >> THEN << >>
  ELSE LET r == results[Len(results)]
           filtered == KeepIfPrepend(SubSeq(results, 1, Len(results) - 1), selector)
       IN IF \/ selector = "nonempty" /\ r.RequestCount > 0
             \/ selector = "empty" /\ r.RequestCount = 0
            THEN <<r>> \o filtered ELSE filtered

\* Variant: the nonempty selector keeps every result whose count is not negative.
filterAppResultsNotNegative(results, filterFlag) ==
  IF ToLower(filterFlag) \in {"nonempty", "empty"}
    THEN KeepIfNotNegative(results, ToLower(filterFlag))
    ELSE results

\* Variant: a kept result is put in front of the ones kept before it.
filterAppResultsPrepend(results, filterFlag) ==
  IF ToLower(filterFlag) \in {"nonempty", "empty"}
    THEN KeepIfPrepend(results, ToLower(filterFlag))
    ELSE results

\* filterAppResults: "nonempty", "empty", and any other value returns results.
filterAppResults(results, filterFlag) ==
  IF ToLower(filterFlag) \in {"nonempty", "empty"}
    THEN KeepIf(results, ToLower(filterFlag))
    ELSE results

\* Variant: a time at the epoch is taken for the zero time.
LastCalledCellEpochIsZero(t) ==
  IF IsZero(t) \/ t.ns = 0 THEN [text |-> "No data", sec |-> 0]
  ELSE [text |-> "RFC1123", sec |-> t.ns \div 1000000000]

\* The "Last Called" cell of a table row: "No data", or the time in RFC1123
\* (whole seconds).
LastCalledCell(t) ==
  IF IsZero(t) THEN [text |-> "No data", sec |-> 0]
  ELSE [text |-> "RFC1123", sec |-> t.ns \div 1000000000]

RECURSIVE Digits(_)
\* The decimal digits of a natural number, most significant first.
Digits(n) == IF n < 10 THEN <<n>> ELSE Append(Digits(n \div 10), n % 10)
\* Variant: the sign is dropped.
SprintfDNoSign(n) == [neg |-> FALSE, digits |-> Digits(IF n < 0 THEN 0 - n ELSE n)]
\* The text the verb %d gives for an int: a minus sign for a negative number,
\* then the digits.
SprintfD(n) == [neg |-> n < 0, digits |-> Digits(IF n < 0 THEN 0 - n ELSE n)]

\* The row printAppsSummaryTable prints for a result.
TableRow(r) ==
  [AppID |-> r.AppID, AppType |-> r.AppType,
   LastCalled |-> LastCalledCell(r.LastCalled),
   RequestCount |-> SprintfD(r.RequestCount)]

\* The header and a record of the file ExportResultsToCSV writes.
CsvHeader == <<"App ID", "Last Called", "Request Count", "LC Window", "RC Window">>
CsvRecord(r) ==
  [AppID |-> r.AppID, LastCalled |-> LastCalledCell(r.LastCalled),
   RequestCount |-> SprintfD(r.RequestCount),
   LCWindow |-> r.LCWindow, RCWindow |-> r.RCWindow]
\* No file has been written.
NoCsv == [err |-> Nil, header |-> << >>, records |-> << >>]
ErrCreate == "failed to create file"

\* ------------------------------------------------------------------ inputs
AppIDs == 1 .. MaxApps
\* Process 0 is a direct caller of monitorSingleApp; 1..MaxApps are the
\* goroutines of monitorAppsConcurrently, one per list position.
Procs == 0 .. MaxApps
Workers == 1 .. MaxApps

\* The deployment kinds the directory can report.
KindCH == <<"CLOUDHUB", "">>
KindRTF == <<"MC", "runtime-fabric">>
KindCH2 == <<"MC", "shared-space">>
KindHybrid == <<"SERVER", "">>
\* App{ID: appID}, the handle getAppsToMonitor builds for --app.
KindNone == <<"", "">>
Kinds == <<KindCH, KindRTF, KindHybrid, KindCH2>>

\* The i-th application of the directory listing (distinct ids).
Catalogue(i) ==
  LET k == Kinds[((i - 1) % Len(Kinds)) + 1] IN App(i, k[1], k[2])

\* Rows (time, value) of a series, and the series of at most MaxRows rows.
TsCells == {F(0), F(1000), F(2000), Half(1000), Null}
ValCells == {F(0), F(3), Half(1), F(0 - 2), Null}
LCRowSet == {<<t, v>> : t \in TsCells, v \in {F(0), F(7)}}
RCRowSet == {<<F(1000), v>> : v \in ValCells}
SeqsUpTo(S, n) == UNION {[1 .. k -> S] : k \in 0 .. n}
Decoy == Series(<< <<F(500), F(9)>> >>)

\* The responses built around a first series: alone, and followed by another
\* series and another result.
Around(values) ==
  { RespOf(<<Result(<<Series(values)>>)>>),
    RespOf(<<Result(<<Series(values), Decoy>>), Result(<<Decoy>>)>>) }
NoSeriesResponses ==
  { RespOf(<< >>), RespOf(<<Result(<< >>)>>),
    RespOf(<<Result(<< >>), Result(<<Decoy>>)>>) }
LCResponses ==
  {RespErr} \cup NoSeriesResponses \cup UNION {Around(v) : v \in SeqsUpTo(LCRowSet, MaxRows)}
RCResponses ==
  {RespErr} \cup NoSeriesResponses \cup UNION {Around(v) : v \in SeqsUpTo(RCRowSet, MaxRows)}

RespEmpty == RespOf(<< >>)
RespEmptySeries == RespOf(<<Result(<<Series(<< >>)>>)>>)
RespData == RespOf(<<Result(<<Series(<< <<F(1000), F(3)>>, <<F(2000), F(4)>> >>)>>)>>)

\* Backend behaviours of a batch run: the answers to the two queries of
\* each application.
OkPair == [lc |-> RespData, rc |-> RespData]
FailPair == [lc |-> RespErr, rc |-> RespErr]
PartialPair == [lc |-> RespErr, rc |-> RespData]
MixedOracle ==
  [i \in AppIDs |-> IF i = 2 THEN PartialPair ELSE IF i = 5 THEN FailPair ELSE OkPair]
\* Every combination of behaviours for the first n applications.
BatchOracles(n) ==
  {o \in [AppIDs -> {OkPair, PartialPair, FailPair}] :
     \A i \in AppIDs : i > n => o[i] = OkPair}
BasicResponses == {RespErr, RespEmpty, RespEmptySeries, RespData}
\* The answers to the two queries of a direct call.
CallPairs ==
  {[lc |-> l, rc |-> r] : l \in LCResponses, r \in BasicResponses}
    \cup {[lc |-> l, rc |-> r] : l \in BasicResponses, r \in RCResponses}

NoResult ==
  [AppID |-> 0, AppType |-> "", LastCalled |-> ZeroTime, RequestCount |-> 0,
   Err |-> Nil, LCWindow |-> "", RCWindow |-> ""]

\* ------------------------------------------------------------------- state
VARIABLES
  mode,          \* "batch": monitorAppsConcurrently; "single": one direct call
  apps,          \* the application list (parameter apps)
  oracle,        \* the backend's answers, per application id
  mainPc,        \* position of the calling goroutine
  spawnIdx,      \* next index of the `for _, app := range apps` loop
  wpc,           \* position of each process
  wapp,          \* the app parameter of each process
  res,           \* the AppResult each process has built
  sem,           \* number of elements in the sem channel
  wg,            \* the WaitGroup counter
  resultsCh,     \* buffered content of resultsCh (a bag: arrival order is
                 \* any order, see Drain)
  closed,        \* resultsCh has been closed
  results,       \* the results slice of the caller
  tickBuf,       \* elements buffered in rateLimiter.C (capacity 1)
  stopped,       \* rateLimiter.Stop() has run
  resolution,    \* clock steps per ticker period in this run
  phase,         \* clock steps since the last period boundary
  sinceDispatch, \* clock steps since the last dispatch, saturated
  lastGap,       \* sinceDispatch as read by the most recent dispatch
  queries,       \* number of queries sent to the backend, per app id and kind
  msaCalls,      \* number of invocations of monitorSingleApp
  cmdPc,         \* position of monitorCmd.Run ("off": no command is running)
  flags,         \* the flags of the command line
  directory,     \* what the applications endpoint answers to GetApps
  viper,         \* the persisted configuration
  globalClient,  \* the process-wide client (anypoint.globalClient)
  now,           \* time.Now(), in half seconds
  client,        \* what the last GetClientFromContext returned
  out,           \* the messages printed, in order
  table,         \* the rows of the summary table printed
  dirCalls,      \* number of calls of Client.GetApps
  finalResults,  \* the finalResults slice of the command
  csv,           \* the records ExportResultsToCSV has written
  conn,          \* the runs of connectCmd.Run: how many, and the last one
  exch           \* the frame of GetExchangeClientApps

vars == <<mode, apps, oracle, mainPc, spawnIdx, wpc, wapp, res, sem, wg,
          resultsCh, closed, results, tickBuf, stopped, resolution, phase,
          sinceDispatch, lastGap, queries, msaCalls, cmdPc, flags, directory,
          viper, globalClient, now, client, out, table, dirCalls,
          finalResults, csv, conn, exch>>

schedVars == <<mainPc, spawnIdx, sem, wg, resultsCh, closed, results>>
clockVars == <<tickBuf, stopped, phase, sinceDispatch, lastGap>>
inputVars == <<mode, apps, oracle, resolution>>
cmdVars == <<cmdPc, flags, directory, out, table, dirCalls, finalResults>>
sessionVars == <<viper, globalClient, now, client>>
toolVars == <<csv, conn, exch>>

N == Len(apps)

\* The flags, the configuration and the client of a process in which no
\* command runs.
NoFlags == [org |-> "", env |-> "", app |-> 0, filter |-> "all", appType |-> "all"]
\* The keys of the configuration the program reads or writes; expiresAt is
\* << >> for the empty string and <<t>> for the RFC3339 text of instant t.
NoConfig ==
  [clientId |-> "", clientSecret |-> "", serverIndex |-> 0, accessToken |-> "",
   expiresAt |-> << >>, influxdbId |-> 0, controlplane |-> ""]
\* A nil *Client, and the fields of a Client.
NilClient ==
  [set |-> FALSE, ClientId |-> "", ClientSecret |-> "", AccessToken |-> "",
   ServerIndex |-> 0, expiresAt |-> 0, InfluxDbId |-> 0]
NoError == [err |-> Nil, client |-> NilClient, at |-> 0]
\* connectCmd.Run has not run, and GetExchangeClientApps has not been called.
NoConnect ==
  [runs |-> 0,
   flags |-> [clientId |-> "", clientSecret |-> "", controlplane |-> ""],
   call |-> << >>, msg |-> "none"]
NoListing ==
  [pc |-> "off", total |-> 0, page |-> 0, stop |-> FALSE, result |-> << >>,
   offsets |-> << >>, ret |-> << >>, err |-> Nil]

InitNoCommand ==
  /\ cmdPc = "off"
  /\ flags = NoFlags
  /\ directory = [err |-> FALSE, data |-> << >>]
  /\ viper = NoConfig
  /\ globalClient = NilClient
  /\ now = 0
  /\ client = NoError

\* Nothing exported, no connect run, no listing of the client applications.
InitNoTools ==
  /\ csv = NoCsv
  /\ conn = NoConnect
  /\ exch = NoListing

InitCommon ==
  /\ spawnIdx = 1
  /\ res = [p \in Procs |-> NoResult]
  /\ sem = 0
  /\ wg = 0
  /\ resultsCh = EmptyBag
  /\ closed = FALSE
  /\ results = << >>
  /\ tickBuf = 0
  /\ stopped = FALSE
  /\ phase = 0
  /\ sinceDispatch = resolution
  /\ lastGap = resolution
  /\ queries = [k \in AppIDs \X {"lc", "rc"} |-> 0]
  /\ msaCalls = 0
  /\ out = << >>
  /\ table = << >>
  /\ dirCalls = 0
  /\ finalResults = << >>

\* monitorAppsConcurrently entered with a list of 0..MaxApps applications:
\* sem, wg, resultsCh and the ticker have just been created.
Init ==
  /\ mode = "batch"
  /\ \E n \in 0 .. MaxApps :
       /\ apps = [i \in 1 .. n |-> Catalogue(i)]
       /\ IF n <= MaxTimedApps
            THEN oracle \in BatchOracles(n) /\ resolution = StepsPerTick
            ELSE oracle = MixedOracle /\ resolution = 1
  /\ mainPc = "loop"
  /\ wpc = [p \in Procs |-> "idle"]
  /\ wapp = [p \in Procs |-> Catalogue(1)]
  /\ InitCommon
  /\ InitNoCommand
  /\ InitNoTools

\* ------------------------------------------------- monitorAppsConcurrently
\* One iteration of the spawn loop: wg.Add(1); go func(app){...}(app).
Spawn ==
  /\ mainPc = "loop"
  /\ spawnIdx <= N
  /\ wg' = wg + 1
  /\ wpc' = [wpc EXCEPT ![spawnIdx] = "acquire"]
  /\ wapp' = [wapp EXCEPT ![spawnIdx] = apps[spawnIdx]]
  /\ spawnIdx' = spawnIdx + 1
  /\ UNCHANGED <<mainPc, sem, resultsCh, closed, results, res, queries, msaCalls>>
  /\ UNCHANGED clockVars
  /\ UNCHANGED inputVars
  /\ UNCHANGED cmdVars
  /\ UNCHANGED sessionVars
  /\ UNCHANGED toolVars

\* Variant: the caller does not wait for the workers.
WaitNoBarrier ==
  /\ mainPc = "loop"
  /\ spawnIdx > N
  /\ mainPc' = "close"
  /\ UNCHANGED <<spawnIdx, wpc, wapp, res, sem, wg, resultsCh, closed,
                 results, queries, msaCalls>>
  /\ UNCHANGED clockVars
  /\ UNCHANGED inputVars
  /\ UNCHANGED cmdVars
  /\ UNCHANGED sessionVars
  /\ UNCHANGED toolVars

\* wg.Wait() returns once the counter is zero.
Wait ==
  /\ mainPc = "loop"
  /\ spawnIdx > N
  /\ wg = 0
  /\ mainPc' = "close"
  /\ UNCHANGED <<spawnIdx, wpc, wapp, res, sem, wg, resultsCh, closed,
                 results, queries, msaCalls>>
  /\ UNCHANGED clockVars
  /\ UNCHANGED inputVars
  /\ UNCHANGED cmdVars
  /\ UNCHANGED sessionVars
  /\ UNCHANGED toolVars

\* close(resultsCh)
Close ==
  /\ mainPc = "close"
  /\ closed' = TRUE
  /\ mainPc' = "drain"
  /\ UNCHANGED <<spawnIdx, wpc, wapp, res, sem, wg, resultsCh, results,
                 queries, msaCalls>>
  /\ UNCHANGED clockVars
  /\ UNCHANGED inputVars
  /\ UNCHANGED cmdVars
  /\ UNCHANGED sessionVars
  /\ UNCHANGED toolVars

\* One iteration of `for r := range resultsCh`: the element received is the
\* oldest one, and the workers may have sent in any order.
Drain ==
  /\ mainPc = "drain"
  /\ \E r \in BagToSet(resultsCh) :
       /\ results' = Append(results, r)
       /\ resultsCh' = resultsCh (-) SetToBag({r})
  /\ UNCHANGED <<mainPc, spawnIdx, wpc, wapp, res, sem, wg, closed, queries, msaCalls>>
  /\ UNCHANGED clockVars
  /\ UNCHANGED inputVars
  /\ UNCHANGED cmdVars
  /\ UNCHANGED sessionVars
  /\ UNCHANGED toolVars

\* The range loop ends on the closed, empty channel; return results runs the
\* deferred rateLimiter.Stop().
Return ==
  /\ mainPc = "drain"
  /\ resultsCh = EmptyBag
  /\ closed
  /\ mainPc' = "returned"
  /\ stopped' = TRUE
  /\ UNCHANGED <<spawnIdx, wpc, wapp, res, sem, wg, resultsCh, closed,
                 results, queries, msaCalls>>
  /\ UNCHANGED <<tickBuf, phase, sinceDispatch, lastGap>>
  /\ UNCHANGED inputVars
  /\ UNCHANGED cmdVars
  /\ UNCHANGED sessionVars
  /\ UNCHANGED toolVars

\* Variant: the semaphore send never blocks.
AcquireNoLimit(w) ==
  /\ wpc[w] = "acquire"
  /\ sem' = sem + 1
  /\ wpc' = [wpc EXCEPT ![w] = "tick"]
  /\ UNCHANGED <<mainPc, spawnIdx, wapp, res, wg, resultsCh, closed,
                 results, queries, msaCalls>>
  /\ UNCHANGED clockVars
  /\ UNCHANGED inputVars
  /\ UNCHANGED cmdVars
  /\ UNCHANGED sessionVars
  /\ UNCHANGED toolVars

\* Variant: the worker does not wait for a tick.
AcquireSkipTick(w) ==
  /\ wpc[w] = "acquire"
  /\ sem < concurrencyLimit
  /\ sem' = sem + 1
  /\ wpc' = [wpc EXCEPT ![w] = "run"]
  /\ UNCHANGED <<mainPc, spawnIdx, wapp, res, wg, resultsCh, closed,
                 results, queries, msaCalls>>
  /\ UNCHANGED clockVars
  /\ UNCHANGED inputVars
  /\ UNCHANGED cmdVars
  /\ UNCHANGED sessionVars
  /\ UNCHANGED toolVars

\* sem <- struct{}{}: blocks while the channel holds concurrencyLimit elements.
Acquire(w) ==
  /\ wpc[w] = "acquire"
  /\ sem < concurrencyLimit
  /\ sem' = sem + 1
  /\ wpc' = [wpc EXCEPT ![w] = "tick"]
  /\ UNCHANGED <<mainPc, spawnIdx, wapp, res, wg, resultsCh, closed,
                 results, queries, msaCalls>>
  /\ UNCHANGED clockVars
  /\ UNCHANGED inputVars
  /\ UNCHANGED cmdVars
  /\ UNCHANGED sessionVars
  /\ UNCHANGED toolVars

\* <-rateLimiter.C: takes the buffered tick; monitorSingleApp begins (dispatch).
Dispatch(w) ==
  /\ wpc[w] = "tick"
  /\ tickBuf > 0
  /\ tickBuf' = tickBuf - 1
  /\ lastGap' = sinceDispatch
  /\ sinceDispatch' = 0
  /\ wpc' = [wpc EXCEPT ![w] = "run"]
  /\ UNCHANGED <<stopped, phase>>
  /\ UNCHANGED <<wapp, res, queries, msaCalls>>
  /\ UNCHANGED schedVars
  /\ UNCHANGED inputVars
  /\ UNCHANGED cmdVars
  /\ UNCHANGED sessionVars
  /\ UNCHANGED toolVars

\* Variant: a worker whose result carries an error ends without sending it.
MonitorAbortOnError(p) ==
  /\ wpc[p] = "run"
  /\ LET app == wapp[p]
         lc == GetLastCalledTime(app, oracle[app.ID].lc)
         rc == GetRequestCount(app, oracle[app.ID].rc)
         r == MonitorSingleApp(app, oracle[app.ID].lc, oracle[app.ID].rc)
     IN
       /\ res' = [res EXCEPT ![p] = r]
       /\ queries' = [queries EXCEPT
                        ![<<app.ID, "lc">>] = @ + (IF lc.sent THEN 1 ELSE 0),
                        ![<<app.ID, "rc">>] = @ + (IF rc.sent THEN 1 ELSE 0)]
       /\ msaCalls' = msaCalls + 1
       /\ wpc' = [wpc EXCEPT ![p] = IF p = 0 THEN "ret"
                                     ELSE IF r.Err # Nil THEN "release" ELSE "send"]
  /\ UNCHANGED wapp
  /\ UNCHANGED schedVars
  /\ UNCHANGED clockVars
  /\ UNCHANGED inputVars
  /\ UNCHANGED cmdVars
  /\ UNCHANGED sessionVars
  /\ UNCHANGED toolVars

\* The call of monitorSingleApp by process p, from its first statement to its
\* return: both client calls, in order, then the result.
Monitor(p) ==
  /\ wpc[p] = "run"
  /\ LET app == wapp[p]
         lc == GetLastCalledTime(app, oracle[app.ID].lc)
         rc == GetRequestCount(app, oracle[app.ID].rc)
     IN
       /\ res' = [res EXCEPT ![p] = MonitorSingleApp(app, oracle[app.ID].lc, oracle[app.ID].rc)]
       /\ queries' = [queries EXCEPT
                        ![<<app.ID, "lc">>] = @ + (IF lc.sent THEN 1 ELSE 0),
                        ![<<app.ID, "rc">>] = @ + (IF rc.sent THEN 1 ELSE 0)]
       /\ msaCalls' = msaCalls + 1
  /\ wpc' = [wpc EXCEPT ![p] = IF p = 0 THEN "ret" ELSE "send"]
  /\ UNCHANGED wapp
  /\ UNCHANGED schedVars
  /\ UNCHANGED clockVars
  /\ UNCHANGED inputVars
  /\ UNCHANGED cmdVars
  /\ UNCHANGED sessionVars
  /\ UNCHANGED toolVars

\* Variant: a send replaces what the channel holds.
SendOverwrite(w) ==
  /\ wpc[w] = "send"
  /\ resultsCh' = SetToBag({res[w]})
  /\ wpc' = [wpc EXCEPT ![w] = "release"]
  /\ UNCHANGED <<mainPc, spawnIdx, wapp, res, sem, wg, closed, results,
                 queries, msaCalls>>
  /\ UNCHANGED clockVars
  /\ UNCHANGED inputVars
  /\ UNCHANGED cmdVars
  /\ UNCHANGED sessionVars
  /\ UNCHANGED toolVars

\* Variant: the channel is made with room for one result less.
SendSmallBuffer(w) ==
  /\ wpc[w] = "send"
  /\ BagCardinality(resultsCh) < N - 1
  /\ resultsCh' = resultsCh (+) SetToBag({res[w]})
  /\ wpc' = [wpc EXCEPT ![w] = "release"]
  /\ UNCHANGED <<mainPc, spawnIdx, wapp, res, sem, wg, closed, results,
                 queries, msaCalls>>
  /\ UNCHANGED clockVars
  /\ UNCHANGED inputVars
  /\ UNCHANGED cmdVars
  /\ UNCHANGED sessionVars
  /\ UNCHANGED toolVars

\* resultsCh <- result: blocks while the buffer (capacity len(apps)) is full.
Send(w) ==
  /\ wpc[w] = "send"
  /\ BagCardinality(resultsCh) < N
  /\ resultsCh' = resultsCh (+) SetToBag({res[w]})
  /\ wpc' = [wpc EXCEPT ![w] = "release"]
  /\ UNCHANGED <<mainPc, spawnIdx, wapp, res, sem, wg, closed, results,
                 queries, msaCalls>>
  /\ UNCHANGED clockVars
  /\ UNCHANGED inputVars
  /\ UNCHANGED cmdVars
  /\ UNCHANGED sessionVars
  /\ UNCHANGED toolVars

\* Variant: the worker ends without giving its slot back.
ReleaseKeepSlot(w) ==
  /\ wpc[w] = "release"
  /\ wpc' = [wpc EXCEPT ![w] = "wgdone"]
  /\ UNCHANGED <<mainPc, spawnIdx, wapp, res, sem, wg, resultsCh, closed,
                 results, queries, msaCalls>>
  /\ UNCHANGED clockVars
  /\ UNCHANGED inputVars
  /\ UNCHANGED cmdVars
  /\ UNCHANGED sessionVars
  /\ UNCHANGED toolVars

\* deferred func() { <-sem }()
Release(w) ==
  /\ wpc[w] = "release"
  /\ sem > 0
  /\ sem' = sem - 1
  /\ wpc' = [wpc EXCEPT ![w] = "wgdone"]
  /\ UNCHANGED <<mainPc, spawnIdx, wapp, res, wg, resultsCh, closed,
                 results, queries, msaCalls>>
  /\ UNCHANGED clockVars
  /\ UNCHANGED inputVars
  /\ UNCHANGED cmdVars
  /\ UNCHANGED sessionVars
  /\ UNCHANGED toolVars

\* Variant: the goroutine ends without wg.Done().
WgDoneMissing(w) ==
  /\ wpc[w] = "wgdone"
  /\ wpc' = [wpc EXCEPT ![w] = "done"]
  /\ UNCHANGED <<mainPc, spawnIdx, wapp, res, sem, wg, resultsCh, closed,
                 results, queries, msaCalls>>
  /\ UNCHANGED clockVars
  /\ UNCHANGED inputVars
  /\ UNCHANGED cmdVars
  /\ UNCHANGED sessionVars
  /\ UNCHANGED toolVars

\* deferred wg.Done(); the goroutine ends.
WgDone(w) ==
  /\ wpc[w] = "wgdone"
  /\ wg' = wg - 1
  /\ wpc' = [wpc EXCEPT ![w] = "done"]
  /\ UNCHANGED <<mainPc, spawnIdx, wapp, res, sem, resultsCh, closed,
                 results, queries, msaCalls>>
  /\ UNCHANGED clockVars
  /\ UNCHANGED inputVars
  /\ UNCHANGED cmdVars
  /\ UNCHANGED sessionVars
  /\ UNCHANGED toolVars

\* time.NewTicker(100ms): the clock advances one step; on a period boundary
\* the ticker sends on its channel of capacity 1 and drops the tick when the
\* buffer is full.
Advance ==
  /\ mode = "batch"
  /\ mainPc # "returned"
  /\ phase' = (phase + 1) % resolution
  /\ sinceDispatch' = IF sinceDispatch < resolution
                        THEN sinceDispatch + 1 ELSE sinceDispatch
  /\ tickBuf' = IF phase' = 0 /\ ~stopped THEN 1 ELSE tickBuf
  /\ UNCHANGED <<stopped, lastGap>>
  /\ UNCHANGED <<wpc, wapp, res, queries, msaCalls>>
  /\ UNCHANGED schedVars
  /\ UNCHANGED inputVars
  /\ UNCHANGED cmdVars
  /\ UNCHANGED sessionVars
  /\ UNCHANGED toolVars

\* A direct call of monitorSingleApp by process 0, for an application of any
\* kind and any pair of backend answers.
InitMonitor ==
  /\ mode = "single"
  /\ \E k \in {KindCH, KindRTF, KindHybrid, KindCH2, KindNone} :
       /\ apps = <<App(1, k[1], k[2])>>
       /\ wapp = [p \in Procs |-> App(1, k[1], k[2])]
  /\ \E pair \in CallPairs : oracle = [i \in AppIDs |-> pair]
  /\ resolution = 1
  /\ mainPc = "single"
  /\ wpc = [p \in Procs |-> IF p = 0 THEN "run" ELSE "idle"]
  /\ InitCommon
  /\ InitNoCommand
  /\ InitNoTools

NextMonitor == Monitor(0)

MonitorSpec == InitMonitor /\ [][NextMonitor]_vars

Next ==
  \/ Spawn
  \/ Wait
  \/ Close
  \/ Drain
  \/ Return
  \/ \E w \in Workers : Acquire(w)
  \/ \E w \in Workers : Dispatch(w)
  \/ \E w \in Workers : Monitor(w)
  \/ \E w \in Workers : Send(w)
  \/ \E w \in Workers : Release(w)
  \/ \E w \in Workers : WgDone(w)
  \/ Advance

Spec == Init /\ [][Next]_vars

\* ------------------------------------------------------------- fairness
\* The steps of worker w and of the caller.
WorkerStep(w) ==
  Acquire(w) \/ Dispatch(w) \/ Monitor(w) \/ Send(w) \/ Release(w) \/ WgDone(w)
MainStep == Spawn \/ Wait \/ Close \/ Drain \/ Return

ProgramStep == MainStep \/ \E w \in Workers : WorkerStep(w)

\* monitorAppsConcurrently entered with a list of 0..MaxApps applications,
\* some of which fail; one clock step per ticker period.
InitFair ==
  /\ mode = "batch"
  /\ \E n \in 0 .. MaxApps : apps = [i \in 1 .. n |-> Catalogue(i)]
  /\ oracle = MixedOracle
  /\ resolution = 1
  /\ mainPc = "loop"
  /\ wpc = [p \in Procs |-> "idle"]
  /\ wapp = [p \in Procs |-> Catalogue(1)]
  /\ InitCommon
  /\ InitNoCommand
  /\ InitNoTools

\* The Go scheduler keeps running runnable goroutines (a backend call in
\* progress returns), and the ticker keeps ticking.
FairSpec ==
  /\ InitFair
  /\ [][Next]_vars
  /\ WF_vars(ProgramStep)
  /\ WF_vars(Advance)

\* ------------------------------------------------------- the session store
\* The InfluxDB id of the organization, as the bootdata gives it.
InfluxId == 7
ErrIncomplete == "client configuration incomplete. Please run 'connect' command first"
ErrExpired == "access token expired. Please run 'connect' command"

\* time.Format(time.RFC3339) followed by time.Parse: the instant truncated to
\* whole seconds (instants are in half seconds).
RFC3339(t) == 2 * (t \div 2)

\* All required configuration values are available.
Complete(config) ==
  ~ \/ config.clientId = ""
    \/ config.clientSecret = ""
    \/ config.accessToken = ""
    \/ config.expiresAt = << >>
    \/ config.influxdbId = 0
\* The client recreated from the configuration.
ClientOf(config) ==
  [set |-> TRUE, ClientId |-> config.clientId,
   ClientSecret |-> config.clientSecret, AccessToken |-> config.accessToken,
   ServerIndex |-> config.serverIndex, expiresAt |-> config.expiresAt[1],
   InfluxDbId |-> config.influxdbId]

\* Variant: the expiry check is skipped.
GetClientFromContextNoExpiry(global, config, t) ==
  IF global.set
    THEN [err |-> Nil, client |-> global, at |-> t]
  ELSE IF ~Complete(config)
    THEN [err |-> ErrIncomplete, client |-> NilClient, at |-> t]
  ELSE [err |-> Nil, client |-> ClientOf(config), at |-> t]

\* GetClientFromContext called at instant t: the error and the client it
\* returns (the client it returns is also the new globalClient).
GetClientFromContext(global, config, t) ==
  IF global.set
    THEN [err |-> Nil, client |-> global, at |-> t]
  ELSE IF ~Complete(config)
    THEN [err |-> ErrIncomplete, client |-> NilClient, at |-> t]
  ELSE IF t > config.expiresAt[1]
    THEN [err |-> ErrExpired, client |-> NilClient, at |-> t]
  ELSE [err |-> Nil, client |-> ClientOf(config), at |-> t]

\* The scheduler, the workers and the backend counters of a process that has
\* not started monitoring.
InitIdle ==
  /\ apps = << >>
  /\ resolution = 1
  /\ mainPc = "idle"
  /\ wpc = [p \in Procs |-> "idle"]
  /\ wapp = [p \in Procs |-> Catalogue(1)]
  /\ InitCommon

\* --------------------------------------------------------- monitorCmd.Run
\* Variant: the comparisons of an earlier revision.
FilterRunningNotEqual(e) ==
  IF FilterCH1(e.app) THEN e.LastReportedStatus # "STARTED"
  ELSE IF FilterRTF(e.app) THEN e.Status # "RUNNING"
  ELSE TRUE

\* FilterRunning on an entry of the directory.
FilterRunning(e) ==
  IF FilterCH1(e.app) THEN e.LastReportedStatus = "STARTED"
  ELSE IF FilterRTF(e.app) THEN e.Status = "RUNNING"
  ELSE TRUE

\* The type filters the --app-type flag adds to FilterRunning.
TypeFilter(appType, e) ==
  CASE ToLower(appType) = "cloudhub" -> FilterCH1(e.app)
    [] ToLower(appType) = "rtf" -> FilterRTF(e.app)
    [] OTHER -> TRUE

RECURSIVE FilterApps(_, _)
\* FilterApps(apps, FilterRunning, type filter): the entries matching all.
FilterApps(entries, appType) ==
  IF entries = << >> THEN << >>
  ELSE LET e == entries[Len(entries)]
           filtered == FilterApps(SubSeq(entries, 1, Len(entries) - 1), appType)
       IN IF FilterRunning(e) /\ TypeFilter(appType, e)
            THEN Append(filtered, e.app) ELSE filtered

\* if orgID == "" || envID == "" { print; return }
CheckFlags ==
  /\ cmdPc = "flags"
  /\ IF flags.org = "" \/ flags.env = ""
       THEN out' = Append(out, "need_flags") /\ cmdPc' = "done"
       ELSE out' = out /\ cmdPc' = "client"
  /\ UNCHANGED <<flags, directory, table, dirCalls, finalResults>>
  /\ UNCHANGED <<wpc, wapp, res, queries, msaCalls>>
  /\ UNCHANGED schedVars
  /\ UNCHANGED clockVars
  /\ UNCHANGED inputVars
  /\ UNCHANGED sessionVars
  /\ UNCHANGED toolVars

\* client, err := anypoint.GetClientFromContext(); on an error print it and
\* return, otherwise PrintClientInfo(client).
GetClient ==
  /\ cmdPc = "client"
  /\ LET r == GetClientFromContext(globalClient, viper, now) IN
       /\ client' = r
       /\ globalClient' = IF r.err = Nil THEN r.client ELSE globalClient
       /\ IF r.err # Nil
            THEN out' = Append(out, "err_client") /\ cmdPc' = "done"
            ELSE out' = Append(out, "client_info") /\ cmdPc' = "apps"
  /\ UNCHANGED <<viper, now>>
  /\ UNCHANGED <<flags, directory, table, dirCalls, finalResults>>
  /\ UNCHANGED <<wpc, wapp, res, queries, msaCalls>>
  /\ UNCHANGED schedVars
  /\ UNCHANGED clockVars
  /\ UNCHANGED inputVars
  /\ UNCHANGED toolVars

\* Variant: the directory is listed also when --app is given.
ListAppsAlways ==
  /\ cmdPc = "apps"
  /\ dirCalls' = dirCalls + 1
  /\ IF directory.err
       THEN /\ apps' = apps
            /\ out' = Append(out, "err_apps")
            /\ cmdPc' = "done"
       ELSE /\ apps' = IF flags.app # 0 THEN <<App(flags.app, "", "")>>
                       ELSE FilterApps(directory.data, flags.appType)
            /\ IF Len(apps') = 0
                 THEN out' = Append(out, "no_apps") /\ cmdPc' = "done"
                 ELSE out' = out /\ cmdPc' = "monitor"
  /\ UNCHANGED <<mode, oracle, resolution>>
  /\ UNCHANGED <<flags, directory, table, finalResults>>
  /\ UNCHANGED <<wpc, wapp, res, queries, msaCalls>>
  /\ UNCHANGED schedVars
  /\ UNCHANGED clockVars
  /\ UNCHANGED sessionVars
  /\ UNCHANGED toolVars

\* Variant: an empty list does not end the run.
ListAppsNoEmptyCheck ==
  /\ cmdPc = "apps"
  /\ IF flags.app # 0
       THEN /\ apps' = <<App(flags.app, "", "")>>
            /\ dirCalls' = dirCalls
            /\ out' = out
            /\ cmdPc' = "monitor"
       ELSE /\ dirCalls' = dirCalls + 1
            /\ IF directory.err
                 THEN /\ apps' = apps
                      /\ out' = Append(out, "err_apps")
                      /\ cmdPc' = "done"
                 ELSE /\ apps' = FilterApps(directory.data, flags.appType)
                      /\ out' = out
                      /\ cmdPc' = "monitor"
  /\ UNCHANGED <<mode, oracle, resolution>>
  /\ UNCHANGED <<flags, directory, table, finalResults>>
  /\ UNCHANGED <<wpc, wapp, res, queries, msaCalls>>
  /\ UNCHANGED schedVars
  /\ UNCHANGED clockVars
  /\ UNCHANGED sessionVars
  /\ UNCHANGED toolVars

\* apps, err := getAppsToMonitor(...): the handle App{ID: appID} when --app is
\* given, otherwise client.GetApps with FilterRunning and the type filter; an
\* error, and an empty list, end the run.
ListApps ==
  /\ cmdPc = "apps"
  /\ IF flags.app # 0
       THEN /\ apps' = <<App(flags.app, "", "")>>
            /\ dirCalls' = dirCalls
            /\ out' = out
            /\ cmdPc' = "monitor"
       ELSE /\ dirCalls' = dirCalls + 1
            /\ IF directory.err
                 THEN /\ apps' = apps
                      /\ out' = Append(out, "err_apps")
                      /\ cmdPc' = "done"
                 ELSE /\ apps' = FilterApps(directory.data, flags.appType)
                      /\ IF Len(apps') = 0
                           THEN out' = Append(out, "no_apps") /\ cmdPc' = "done"
                           ELSE out' = out /\ cmdPc' = "monitor"
  /\ UNCHANGED <<mode, oracle, resolution>>
  /\ UNCHANGED <<flags, directory, table, finalResults>>
  /\ UNCHANGED <<wpc, wapp, res, queries, msaCalls>>
  /\ UNCHANGED schedVars
  /\ UNCHANGED clockVars
  /\ UNCHANGED sessionVars
  /\ UNCHANGED toolVars

\* if appID != "": result := monitorSingleApp(..., apps[0], ...) is called.
SingleStart ==
  /\ cmdPc = "monitor"
  /\ flags.app # 0
  /\ mode' = "single"
  /\ wapp' = [wapp EXCEPT ![0] = apps[1]]
  /\ wpc' = [wpc EXCEPT ![0] = "run"]
  /\ cmdPc' = "single"
  /\ UNCHANGED <<apps, oracle, resolution>>
  /\ UNCHANGED <<flags, directory, out, table, dirCalls, finalResults>>
  /\ UNCHANGED <<res, queries, msaCalls>>
  /\ UNCHANGED schedVars
  /\ UNCHANGED clockVars
  /\ UNCHANGED sessionVars
  /\ UNCHANGED toolVars

\* Variant: the detailed view is printed whatever the result holds.
SingleEndAlwaysDetail ==
  /\ cmdPc = "single"
  /\ wpc[0] = "ret"
  /\ out' = IF res[0].Err # Nil
              THEN out \o <<"err_single", "detail">>
              ELSE Append(out, "detail")
  /\ cmdPc' = "done"
  /\ UNCHANGED <<flags, directory, table, dirCalls, finalResults>>
  /\ UNCHANGED <<wpc, wapp, res, queries, msaCalls>>
  /\ UNCHANGED schedVars
  /\ UNCHANGED clockVars
  /\ UNCHANGED inputVars
  /\ UNCHANGED sessionVars
  /\ UNCHANGED toolVars

\* if result.Err != nil { print the error; return }; printDetailedResult(result)
SingleEnd ==
  /\ cmdPc = "single"
  /\ wpc[0] = "ret"
  /\ out' = Append(out, IF res[0].Err # Nil THEN "err_single" ELSE "detail")
  /\ cmdPc' = "done"
  /\ UNCHANGED <<flags, directory, table, dirCalls, finalResults>>
  /\ UNCHANGED <<wpc, wapp, res, queries, msaCalls>>
  /\ UNCHANGED schedVars
  /\ UNCHANGED clockVars
  /\ UNCHANGED inputVars
  /\ UNCHANGED sessionVars
  /\ UNCHANGED toolVars

\* allResults := monitorAppsConcurrently(...) is called: sem, wg, resultsCh
\* and the ticker are created.
InvokeScheduler ==
  /\ cmdPc = "monitor"
  /\ flags.app = 0
  /\ mode' = "batch"
  /\ mainPc' = "loop"
  /\ cmdPc' = "batch"
  /\ UNCHANGED <<apps, oracle, resolution>>
  /\ UNCHANGED <<spawnIdx, sem, wg, resultsCh, closed, results>>
  /\ UNCHANGED <<flags, directory, out, table, dirCalls, finalResults>>
  /\ UNCHANGED <<wpc, wapp, res, queries, msaCalls>>
  /\ UNCHANGED clockVars
  /\ UNCHANGED sessionVars
  /\ UNCHANGED toolVars

\* monitorAppsConcurrently has returned: the four lines on the windows and
\* the numbers of apps found and collected.
Collected ==
  /\ cmdPc = "batch"
  /\ mainPc = "returned"
  /\ out' = Append(out, "collected")
  /\ cmdPc' = "filter"
  /\ UNCHANGED <<flags, directory, table, dirCalls, finalResults>>
  /\ UNCHANGED <<wpc, wapp, res, queries, msaCalls>>
  /\ UNCHANGED schedVars
  /\ UNCHANGED clockVars
  /\ UNCHANGED inputVars
  /\ UNCHANGED sessionVars
  /\ UNCHANGED toolVars

\* --------------------------------------------- filtering and the summary
\* finalResults := filterAppResults(allResults, dataFilter), and the line
\* that reports how many remain.
ApplyFilter ==
  /\ cmdPc = "filter"
  /\ finalResults' = filterAppResults(results, flags.filter)
  /\ out' = Append(out, "after_filter")
  /\ cmdPc' = "print"
  /\ UNCHANGED <<flags, directory, table, dirCalls>>
  /\ UNCHANGED <<wpc, wapp, res, queries, msaCalls>>
  /\ UNCHANGED schedVars
  /\ UNCHANGED clockVars
  /\ UNCHANGED inputVars
  /\ UNCHANGED sessionVars
  /\ UNCHANGED toolVars

\* The end of the batch run: "No apps match the filter criteria." when nothing
\* remains, and printSummary(finalResults) otherwise.
PrintSummary ==
  /\ cmdPc = "print"
  /\ IF Len(finalResults) = 0
       THEN /\ out' = Append(out, "no_match")
            /\ table' = table
       ELSE /\ out' = Append(out, "table")
            /\ table' = [k \in 1 .. Len(finalResults) |-> TableRow(finalResults[k])]
  /\ cmdPc' = "done"
  /\ UNCHANGED <<flags, directory, dirCalls, finalResults>>
  /\ UNCHANGED <<wpc, wapp, res, queries, msaCalls>>
  /\ UNCHANGED schedVars
  /\ UNCHANGED clockVars
  /\ UNCHANGED inputVars
  /\ UNCHANGED sessionVars
  /\ UNCHANGED toolVars

\* The values of the --filter flag.
FilterFlags == {"all", "nonempty", "empty", "NonEmpty", "EMPTY", "none"}
\* The request counts of the results of a collection.
Counts == {0, 5, 0 - 1}
\* A result with the given id and request count.
ResultOf(id, count) ==
  [AppID |-> id, AppType |-> GetType(Catalogue(id)),
   LastCalled |-> IF count > 0 THEN Unix(2000 * Millisecond) ELSE ZeroTime,
   RequestCount |-> count, Err |-> Nil,
   LCWindow |-> LCWindow, RCWindow |-> RCWindow]
\* The orders in which n results can arrive: the injections of 1..n into the
\* ids 1..MaxResults.
Orders(n) ==
  {f \in [1 .. n -> 1 .. MaxResults] : \A a, b \in 1 .. n : a # b => f[a] # f[b]}

\* The command after monitorAppsConcurrently has returned a collection of at
\* most MaxResults results, in any order of ids: about to apply the filter.
InitFilter ==
  /\ mode = "batch"
  /\ InitNoTools
  /\ apps = << >>
  /\ oracle = MixedOracle
  /\ resolution = 1
  /\ mainPc = "returned"
  /\ wpc = [p \in Procs |-> "idle"]
  /\ wapp = [p \in Procs |-> Catalogue(1)]
  /\ spawnIdx = 1
  /\ res = [p \in Procs |-> NoResult]
  /\ sem = 0
  /\ wg = 0
  /\ resultsCh = EmptyBag
  /\ closed = TRUE
  /\ \E n \in 0 .. MaxResults :
       \E ids \in Orders(n), c \in [1 .. n -> Counts] :
         results = [k \in 1 .. n |-> ResultOf(ids[k], c[k])]
  /\ tickBuf = 0
  /\ stopped = TRUE
  /\ phase = 0
  /\ sinceDispatch = resolution
  /\ lastGap = resolution
  /\ queries = [k \in AppIDs \X {"lc", "rc"} |-> 0]
  /\ msaCalls = 0
  /\ cmdPc = "filter"
  /\ \E f \in FilterFlags : flags = [NoFlags EXCEPT !.filter = f]
  /\ directory = [err |-> FALSE, data |-> << >>]
  /\ viper = NoConfig
  /\ globalClient = NilClient
  /\ now = 0
  /\ client = NoError
  /\ out = << >>
  /\ table = << >>
  /\ dirCalls = 0
  /\ finalResults = << >>

NextFilter == ApplyFilter \/ PrintSummary

FilterSpec == InitFilter /\ [][NextFilter]_vars

\* ----------------------------------------------- the table and the export
\* The largest number of results printed or exported.
MaxExported == 2
\* The instants a result can carry, and its request counts.
RenderTimes == {ZeroTime, Unix(0), Unix(1500 * Millisecond)}
RenderCounts == {0, 7, 10, 123, 0 - 45}
RenderResults ==
  {[AppID |-> 1, AppType |-> GetType(Catalogue(1)), LastCalled |-> t,
    RequestCount |-> c, Err |-> Nil, LCWindow |-> LCWindow,
    RCWindow |-> RCWindow] : t \in RenderTimes, c \in RenderCounts}

\* ExportResultsToCSV(fileName, finalResults): the file cannot be created, or
\* the header and one record per result are written.
ExportResultsToCSV ==
  /\ csv = NoCsv
  /\ \E created \in BOOLEAN :
       csv' = IF ~created
                THEN [NoCsv EXCEPT !.err = ErrCreate]
                ELSE [err |-> Nil, header |-> CsvHeader,
                      records |-> [k \in 1 .. Len(finalResults) |->
                                     CsvRecord(finalResults[k])]]
  /\ UNCHANGED <<conn, exch>>
  /\ UNCHANGED cmdVars
  /\ UNCHANGED <<wpc, wapp, res, queries, msaCalls>>
  /\ UNCHANGED schedVars
  /\ UNCHANGED clockVars
  /\ UNCHANGED inputVars
  /\ UNCHANGED sessionVars

\* The command about to print the results that remain after the filter, at
\* least one and at most MaxExported.
InitRender ==
  /\ mode = "batch"
  /\ InitNoTools
  /\ apps = << >>
  /\ oracle = MixedOracle
  /\ resolution = 1
  /\ mainPc = "returned"
  /\ wpc = [p \in Procs |-> "idle"]
  /\ wapp = [p \in Procs |-> Catalogue(1)]
  /\ spawnIdx = 1
  /\ res = [p \in Procs |-> NoResult]
  /\ sem = 0
  /\ wg = 0
  /\ resultsCh = EmptyBag
  /\ closed = TRUE
  /\ results = << >>
  /\ tickBuf = 0
  /\ stopped = TRUE
  /\ phase = 0
  /\ sinceDispatch = resolution
  /\ lastGap = resolution
  /\ queries = [k \in AppIDs \X {"lc", "rc"} |-> 0]
  /\ msaCalls = 0
  /\ cmdPc = "print"
  /\ flags = NoFlags
  /\ directory = [err |-> FALSE, data |-> << >>]
  /\ viper = NoConfig
  /\ globalClient = NilClient
  /\ now = 0
  /\ client = NoError
  /\ out = << >>
  /\ table = << >>
  /\ dirCalls = 0
  /\ \E n \in 1 .. MaxExported : finalResults \in [1 .. n -> RenderResults]

NextRender == PrintSummary \/ ExportResultsToCSV

RenderSpec == InitRender /\ [][NextRender]_vars

\* ------------------------------------------------ a run of the command
\* An entry of the answer of the applications endpoint: the i-th application,
\* started or not.
DirEntry(i, up) ==
  [app |-> Catalogue(i),
   LastReportedStatus |-> IF up THEN "STARTED" ELSE "UNDEPLOYED",
   Status |-> IF up THEN "RUNNING" ELSE "NOT_RUNNING"]
\* The answers of the applications endpoint: an error, or up to MaxDirApps
\* applications.
Directories ==
  {[err |-> TRUE, data |-> << >>]} \cup
  UNION {{[err |-> FALSE, data |-> [i \in 1 .. n |-> DirEntry(i, up[i])]] :
            up \in [1 .. n -> BOOLEAN]} : n \in 0 .. MaxDirApps}
\* The backend in the runs of the command: every query answered with data,
\* every query failing, and a mix.
CmdOracles ==
  {[i \in AppIDs |-> OkPair], [i \in AppIDs |-> FailPair],
   [i \in AppIDs |-> [lc |-> RespEmpty, rc |-> RespEmpty]], MixedOracle}
\* The command lines: --org and --env given or empty, --app absent (0) or an
\* application id, the result filter and the type filter.
CommandLines ==
  [org : {"", "org"}, env : {"", "env"}, app : {0, 2},
   filter : {"all", "nonempty", "empty"}, appType : {"all", "cloudhub", "RTF"}]
\* The instant at which the command runs.
CmdNow == 4
\* The persisted configuration at process start: none, or complete with a
\* token that expired, expires now, or expires later.
Configs ==
  {NoConfig} \cup
  {[clientId |-> "id0", clientSecret |-> "secret0", serverIndex |-> 0,
    accessToken |-> "token", expiresAt |-> <<e>>, influxdbId |-> InfluxId,
    controlplane |-> ""] : e \in {2, 4, 6}}

\* The process starts and cobra runs monitorCmd.Run.
InitCmd ==
  /\ mode = "cmd"
  /\ oracle \in CmdOracles
  /\ InitIdle
  /\ InitNoTools
  /\ cmdPc = "flags"
  /\ flags \in CommandLines
  /\ directory \in Directories
  /\ viper \in Configs
  /\ globalClient = NilClient
  /\ now = CmdNow
  /\ client = NoError

NextCmd ==
  \/ CheckFlags
  \/ GetClient
  \/ ListApps
  \/ SingleStart
  \/ Monitor(0)
  \/ SingleEnd
  \/ InvokeScheduler
  \/ Next
  \/ Collected
  \/ ApplyFilter
  \/ PrintSummary

CmdSpec == InitCmd /\ [][NextCmd]_vars

\* The program entered at the command, or at monitorAppsConcurrently with a
\* list no longer than the directory answers of the command's runs.
InitProgram == InitCmd \/ (InitFair /\ Len(apps) <= MaxDirApps)

ProgramSpec == InitProgram /\ [][NextCmd]_vars

\* -------------------------------------------------- the directory listing
\* The answers of the applications endpoint in which the two status fields
\* of an application are independent of each other and of its kind.
StatusDirectories ==
  UNION {{[err |-> FALSE,
           data |-> [i \in 1 .. n |->
                       [app |-> Catalogue(i), LastReportedStatus |-> lrs[i],
                        Status |-> st[i]]]] :
            lrs \in [1 .. n -> {"STARTED", "UNDEPLOYED"}],
            st \in [1 .. n -> {"RUNNING", "NOT_RUNNING"}]} :
         n \in 0 .. MaxDirApps}

\* The command run for a whole environment, with a valid session.
InitApps ==
  /\ mode = "cmd"
  /\ oracle = MixedOracle
  /\ InitIdle
  /\ InitNoTools
  /\ cmdPc = "flags"
  /\ \E t \in {"all", "cloudhub", "RTF"} :
       flags = [org |-> "org", env |-> "env", app |-> 0, filter |-> "all",
                appType |-> t]
  /\ directory \in StatusDirectories
  /\ viper \in {c \in Configs : Complete(c) /\ c.expiresAt[1] >= CmdNow}
  /\ globalClient = NilClient
  /\ now = CmdNow
  /\ client = NoError

\* The command up to the list of the applications to monitor.
NextApps == CheckFlags \/ GetClient \/ ListApps

AppsSpec == InitApps /\ [][NextApps]_vars

\* ------------------------------------------------- GetExchangeClientApps
\* The page size of the listing.
limit == 250
\* The largest number of full pages the collection of the backend holds.
MaxFullPages == 2
\* The sizes of the collection: up to MaxFullPages full pages and a partial
\* page, empty or not.
Totals == 0 .. (MaxFullPages + 1) * limit - 1
ErrPage == "page request failed"

\* What the endpoint answers to Limit(lim).Offset(offset) on a collection of
\* total items: the items are numbered by their position.
PageOf(total, offset, lim) ==
  LET n == IF total - offset < 0 THEN 0
           ELSE IF total - offset < lim THEN total - offset ELSE lim
  IN [k \in 1 .. n |-> offset + k]

\* Variant: on a failed request the pages collected so far are returned.
FetchPageKeepOnError ==
  /\ exch.pc = "loop"
  /\ \E failed \in BOOLEAN :
       LET offset == limit * exch.page
           exchApps == PageOf(exch.total, offset, limit)
           requested == [exch EXCEPT !.offsets = Append(@, offset)]
       IN IF failed
            THEN exch' = [requested EXCEPT !.pc = "returned",
                                           !.ret = exch.result, !.err = ErrPage]
            ELSE LET next == [requested EXCEPT
                                !.result = @ \o exchApps,
                                !.stop = Len(exchApps) >= limit,
                                !.page = @ + 1]
                 IN exch' = IF next.stop THEN next
                            ELSE [next EXCEPT !.pc = "returned",
                                              !.ret = next.result]
  /\ UNCHANGED <<csv, conn>>
  /\ UNCHANGED cmdVars
  /\ UNCHANGED <<wpc, wapp, res, queries, msaCalls>>
  /\ UNCHANGED schedVars
  /\ UNCHANGED clockVars
  /\ UNCHANGED inputVars
  /\ UNCHANGED sessionVars

\* One iteration of the loop of GetExchangeClientApps: the request of the
\* page at offset limit * page; on an error the function returns nil and the
\* error; otherwise the page is appended, stop is set when the page is full,
\* and the function returns the result unless stop is set.
FetchPage ==
  /\ exch.pc = "loop"
  /\ \E failed \in BOOLEAN :
       LET offset == limit * exch.page
           exchApps == PageOf(exch.total, offset, limit)
           requested == [exch EXCEPT !.offsets = Append(@, offset)]
       IN IF failed
            THEN exch' = [requested EXCEPT !.pc = "returned",
                                           !.ret = << >>, !.err = ErrPage]
            ELSE LET next == [requested EXCEPT
                                !.result = @ \o exchApps,
                                !.stop = Len(exchApps) >= limit,
                                !.page = @ + 1]
                 IN exch' = IF next.stop THEN next
                            ELSE [next EXCEPT !.pc = "returned",
                                              !.ret = next.result]
  /\ UNCHANGED <<csv, conn>>
  /\ UNCHANGED cmdVars
  /\ UNCHANGED <<wpc, wapp, res, queries, msaCalls>>
  /\ UNCHANGED schedVars
  /\ UNCHANGED clockVars
  /\ UNCHANGED inputVars
  /\ UNCHANGED sessionVars

\* GetExchangeClientApps has been called on the client of a valid session
\* and is about to request the first page.
InitExch ==
  /\ mode = "exch"
  /\ oracle = MixedOracle
  /\ InitIdle
  /\ csv = NoCsv
  /\ conn = NoConnect
  /\ \E total \in Totals :
       exch = [NoListing EXCEPT !.pc = "loop", !.total = total]
  /\ cmdPc = "off"
  /\ flags = NoFlags
  /\ directory = [err |-> FALSE, data |-> << >>]
  /\ viper \in {c \in Configs : Complete(c) /\ c.expiresAt[1] > CmdNow}
  /\ globalClient = ClientOf(viper)
  /\ now = CmdNow
  /\ client = [err |-> Nil, client |-> globalClient, at |-> CmdNow]

ExchSpec == InitExch /\ [][FetchPage]_vars

\* ------------------------------------------------- a process and its session
\* The tokens' lifetimes (expires_in), in seconds.
Lifetimes == {1, 2}

\* The largest number of runs of the connect command in one history.
MaxConnects == 2
\* The flags of a connect command line ("" when a flag is omitted), and what
\* the platform answers: the token request and the bootdata request succeed
\* or fail, and the token's lifetime.
ConnectFlags ==
  [clientId : {"", "id1"}, clientSecret : {"", "secret1"},
   controlplane : {"", "us", "eu", "gov", "mars"}]
Platform == [auth : BOOLEAN, influx : BOOLEAN, expiresIn : Lifetimes]
ErrAuth == "error authenticating"
ErrInflux == "error retrieving InfluxDB ID"

\* cplane2serverindex: the server index of a control plane name, -1 for an
\* invalid one.
cplane2serverindex(cplane) ==
  CASE cplane = "eu" -> 1
    [] cplane = "us" -> 0
    [] cplane = "gov" -> 2
    [] OTHER -> 0 - 1

\* setGlobalClient: the configuration after the client's fields are written.
\* (A failure of SaveConfig only prints a warning.)
setGlobalClient(c, config) ==
  [config EXCEPT !.clientId = c.ClientId, !.clientSecret = c.ClientSecret,
                 !.serverIndex = c.ServerIndex, !.accessToken = c.AccessToken,
                 !.expiresAt = <<RFC3339(c.expiresAt)>>,
                 !.influxdbId = c.InfluxDbId]

\* Variant: the client is stored as soon as the token is obtained, before the
\* InfluxDB id is retrieved.
NewClientStoreFirst(serverIndex, clientId, clientSecret, p, t, config, global) ==
  IF ~p.auth
    THEN [err |-> ErrAuth, client |-> NilClient, viper |-> config,
          globalClient |-> global]
  ELSE LET c == [set |-> TRUE, ClientId |-> clientId,
                 ClientSecret |-> clientSecret, AccessToken |-> "token",
                 ServerIndex |-> serverIndex, expiresAt |-> t + 2 * p.expiresIn,
                 InfluxDbId |-> 0]
       IN IF ~p.influx
            THEN [err |-> ErrInflux, client |-> NilClient,
                  viper |-> setGlobalClient(c, config), globalClient |-> c]
            ELSE LET d == [c EXCEPT !.InfluxDbId = InfluxId] IN
                   [err |-> Nil, client |-> d,
                    viper |-> setGlobalClient(d, config), globalClient |-> d]

\* NewClient at instant t, with the configuration and the process-wide client
\* as they are: the error and the client returned, and the configuration and
\* the process-wide client afterwards.
NewClient(serverIndex, clientId, clientSecret, p, t, config, global) ==
  IF ~p.auth
    THEN [err |-> ErrAuth, client |-> NilClient, viper |-> config,
          globalClient |-> global]
  ELSE LET c == [set |-> TRUE, ClientId |-> clientId,
                 ClientSecret |-> clientSecret, AccessToken |-> "token",
                 ServerIndex |-> serverIndex, expiresAt |-> t + 2 * p.expiresIn,
                 InfluxDbId |-> 0]
       IN IF ~p.influx
            THEN [err |-> ErrInflux, client |-> NilClient, viper |-> config,
                  globalClient |-> global]
            ELSE LET d == [c EXCEPT !.InfluxDbId = InfluxId] IN
                   [err |-> Nil, client |-> d,
                    viper |-> setGlobalClient(d, config), globalClient |-> d]

\* connectCmd.Run: credentials and control plane from the flags, else from
\* the configuration, the control plane else "us"; without credentials or
\* with an invalid control plane a message and nothing else; otherwise
\* NewClient, and its error or the success message.
Connect ==
  /\ conn.runs < MaxConnects
  /\ \E f \in ConnectFlags, p \in Platform :
       LET clientId == IF f.clientId = "" THEN viper.clientId ELSE f.clientId
           clientSecret ==
             IF f.clientSecret = "" THEN viper.clientSecret ELSE f.clientSecret
           fromConfig ==
             IF f.controlplane = "" THEN viper.controlplane ELSE f.controlplane
           controlPlane == IF fromConfig = "" THEN "us" ELSE fromConfig
           serverIndex == cplane2serverindex(controlPlane)
           run == [runs |-> conn.runs + 1, flags |-> f, call |-> << >>,
                   msg |-> "none"]
       IN IF clientId = "" \/ clientSecret = ""
            THEN /\ conn' = [run EXCEPT !.msg = "need_credentials"]
                 /\ UNCHANGED <<viper, globalClient>>
          ELSE IF serverIndex = 0 - 1
            THEN /\ conn' = [run EXCEPT !.msg = "invalid_controlplane"]
                 /\ UNCHANGED <<viper, globalClient>>
          ELSE LET r == NewClient(serverIndex, clientId, clientSecret, p, now,
                                  viper, globalClient)
               IN /\ conn' = [run EXCEPT
                                !.call = <<[serverIndex |-> serverIndex,
                                            clientId |-> clientId,
                                            clientSecret |-> clientSecret]>>,
                                !.msg = IF r.err # Nil THEN r.err
                                        ELSE "connected"]
                  /\ viper' = r.viper
                  /\ globalClient' = r.globalClient
  /\ UNCHANGED <<now, client>>
  /\ UNCHANGED <<csv, exch>>
  /\ UNCHANGED cmdVars
  /\ UNCHANGED <<wpc, wapp, res, queries, msaCalls>>
  /\ UNCHANGED schedVars
  /\ UNCHANGED clockVars
  /\ UNCHANGED inputVars

\* A call of GetClientFromContext by an operation of the process.
GetClientCall ==
  /\ LET r == GetClientFromContext(globalClient, viper, now) IN
       /\ client' = r
       /\ globalClient' = IF r.err = Nil THEN r.client ELSE globalClient
  /\ UNCHANGED <<viper, now>>
  /\ UNCHANGED cmdVars
  /\ UNCHANGED <<wpc, wapp, res, queries, msaCalls>>
  /\ UNCHANGED schedVars
  /\ UNCHANGED clockVars
  /\ UNCHANGED inputVars
  /\ UNCHANGED toolVars

\* time.Now() advances by half a second.
Tick ==
  /\ now < MaxNow
  /\ now' = now + 1
  /\ UNCHANGED <<viper, globalClient, client>>
  /\ UNCHANGED cmdVars
  /\ UNCHANGED <<wpc, wapp, res, queries, msaCalls>>
  /\ UNCHANGED schedVars
  /\ UNCHANGED clockVars
  /\ UNCHANGED inputVars
  /\ UNCHANGED toolVars

\* A process starts: no client is cached, and the configuration file holds
\* nothing or an earlier session.
InitSession ==
  /\ mode = "session"
  /\ oracle = MixedOracle
  /\ InitIdle
  /\ InitNoTools
  /\ cmdPc = "off"
  /\ flags = NoFlags
  /\ directory = [err |-> FALSE, data |-> << >>]
  /\ viper \in Configs
  /\ globalClient = NilClient
  /\ now = 0
  /\ client = NoError

NextSession == Connect \/ GetClientCall \/ Tick

SessionSpec == InitSession /\ [][NextSession]_vars

\* The connect command run again and again, on the configuration a process
\* starts with.
ConnectSpec == InitSession /\ [][Connect]_vars

\* ------------------------------------------------------------ properties
Returned == mainPc = "returned"
ResultsFor(id) == {k \in 1 .. Len(results) : results[k].AppID = id}
InProgress == {w \in Workers : wpc[w] = "run"}
\* A gap of clock steps, in milliseconds.
GapMs(steps) == (steps * TickPeriodMs) \div resolution
TheApp == wapp[0]
CallReturned == mode = "single" /\ wpc[0] = "ret"

\* C1: when monitorAppsConcurrently returns, the collection has exactly N
\* results and each input application's id is the AppID of exactly one.
C1_ExactlyOneResultPerApp ==
  Returned =>
    /\ Len(results) = N
    /\ \A i \in 1 .. N : Cardinality(ResultsFor(apps[i].ID)) = 1

C1_Witness ==
  /\ Returned
  /\ N > concurrencyLimit
  /\ \E k \in 1 .. Len(results) : results[k].Err # Nil
  /\ \E k \in 1 .. Len(results) : results[k].Err = Nil

\* C2: at every point at most 5 invocations of monitorSingleApp are in
\* progress (started and not yet returned).
C2_AtMostFiveInProgress == Cardinality(InProgress) <= concurrencyLimit

C2_Witness ==
  /\ Cardinality(InProgress) = concurrencyLimit
  /\ \E w \in Workers : wpc[w] = "acquire"

\* C3: any two dispatches of a run are at least 100 ms apart: the gap read by
\* every dispatch from the one before it is at least the ticker period.
C3_DispatchesSpaced == GapMs(lastGap) >= TickPeriodMs

\* C4: the caller is past wg.Wait(), and the aggregation loop has read a result,
\* only when every worker has sent its result and finished; from then on every
\* result is in the channel or in the collection.
C4_Barrier ==
  /\ mainPc \in {"close", "drain", "returned"} =>
       \A w \in 1 .. N : wpc[w] = "done"
  /\ results # << >> => mainPc \in {"drain", "returned"}
  /\ mainPc \in {"close", "drain", "returned"} =>
       BagCardinality(resultsCh) + Len(results) = N

C4_Witness ==
  /\ mainPc = "drain"
  /\ N >= 2
  /\ Len(results) = 1

\* C5: under fair scheduling, a ticking ticker and returning backend calls,
\* monitorAppsConcurrently eventually returns, for every list length up to
\* MaxApps (longer than the concurrency limit).
C5_EventuallyReturns == <>Returned

C5_Witness ==
  /\ Returned
  /\ N > concurrencyLimit
  /\ sem = 0
  /\ wg = 0

\* C6: the result returned for each application is the one its own kind and
\* its own two backend answers give, whatever happened to the other items, and
\* a run with failed items still returns one result per application.
C6_FailuresIsolated ==
  Returned =>
    \A i \in 1 .. N :
      \E k \in 1 .. Len(results) :
        results[k] = MonitorSingleApp(apps[i], oracle[apps[i].ID].lc,
                                      oracle[apps[i].ID].rc)

C6_Witness ==
  /\ Returned
  /\ N = MaxTimedApps
  /\ oracle[1] = OkPair
  /\ oracle[2] = FailPair
  /\ \E k \in 1 .. Len(results) : results[k].AppID = 1 /\ results[k].Err = Nil
  /\ \E k \in 1 .. Len(results) : results[k].AppID = 2 /\ results[k].Err # Nil

\* C7: the result of monitorSingleApp carries a failure descriptor exactly
\* when one of its two client calls returned an error, that is when the kind
\* is unsupported or the backend failed on either query; answers with empty
\* data carry none.
C7_ErrIffACallFailed ==
  CallReturned =>
    (res[0].Err # Nil <=>
       (~FilterCH1OrRTF(TheApp) \/ oracle[1].lc.err \/ oracle[1].rc.err))

C7_Witness ==
  /\ CallReturned
  /\ FilterCH1OrRTF(TheApp)
  /\ oracle[1].lc = RespEmpty
  /\ oracle[1].rc = RespEmpty
  /\ res[0].Err = Nil

\* C8: for a supported application both queries are sent once each, also when
\* the first fails, and a result with one failed query keeps the value of the
\* other query next to the failure descriptor.
C8_BothQueriesPartialKept ==
  (CallReturned /\ FilterCH1OrRTF(TheApp)) =>
    /\ queries[<<1, "lc">>] = 1
    /\ queries[<<1, "rc">>] = 1
    /\ (oracle[1].lc.err /\ ~oracle[1].rc.err) =>
         /\ res[0].Err # Nil
         /\ res[0].RequestCount = GetRequestCount(TheApp, oracle[1].rc).val
    /\ (oracle[1].rc.err /\ ~oracle[1].lc.err) =>
         /\ res[0].Err # Nil
         /\ res[0].LastCalled = GetLastCalledTime(TheApp, oracle[1].lc).val

C8_Witness ==
  /\ CallReturned
  /\ oracle[1].lc.err
  /\ ~oracle[1].rc.err
  /\ res[0].Err # Nil
  /\ res[0].RequestCount > 0
  /\ queries[<<1, "rc">>] = 1

\* C9: an application that is neither CloudHub nor Runtime Fabric gets a
\* result whose failure descriptor states the unsupported type, with
\* RequestCount 0 and the zero LastCalled, and no query is sent for it.
C9_UnsupportedKind ==
  (CallReturned /\ ~(TheApp.Type = "CLOUDHUB")
     /\ ~(TheApp.Type = "MC" /\ TheApp.Subtype = "runtime-fabric")) =>
    /\ res[0].Err = ErrPair(ErrUnsupported(TheApp), ErrUnsupported(TheApp))
    /\ res[0].RequestCount = 0
    /\ IsZero(res[0].LastCalled)
    /\ queries[<<1, "lc">>] = 0
    /\ queries[<<1, "rc">>] = 0

C9_Witness ==
  /\ CallReturned
  /\ TheApp.Type = "MC"
  /\ TheApp.Subtype = "shared-space"
  /\ oracle[1].rc = RespData
  /\ res[0].RequestCount = 0

\* C10: when the last-called query succeeds and the first series of the
\* first result is not empty, LastCalled is the time whose milliseconds since
\* the epoch are those of the last row of that series (a numeric time cell),
\* whatever the values and the other series and results.
C10_LastRowOfFirstSeries ==
  (/\ CallReturned
   /\ FilterCH1OrRTF(TheApp)
   /\ ~oracle[1].lc.err
   /\ Len(oracle[1].lc.Results) > 0
   /\ Len(oracle[1].lc.Results[1].Series) > 0
   /\ Len(oracle[1].lc.Results[1].Series[1].Values) > 0) =>
    LET values == oracle[1].lc.Results[1].Series[1].Values
        t == values[Len(values)][1]
    IN t.ok =>
         /\ ~IsZero(res[0].LastCalled)
         /\ res[0].LastCalled.ns = (t.h \div 2) * Millisecond

C10_Witness ==
  /\ CallReturned
  /\ FilterCH1OrRTF(TheApp)
  /\ ~oracle[1].lc.err
  /\ Len(oracle[1].lc.Results) > 1
  /\ Len(oracle[1].lc.Results[1].Series) > 1
  /\ oracle[1].lc.Results[1].Series[1].Values = << <<F(1000), F(7)>>, <<F(2000), F(0)>> >>
  /\ res[0].LastCalled = Unix(2000 * Millisecond)

\* A successful answer without a data point: no result, a first result
\* without series, or a first series without rows.
EmptyData(resp) ==
  /\ ~resp.err
  /\ \/ Len(resp.Results) = 0
     \/ Len(resp.Results[1].Series) = 0
     \/ Len(resp.Results[1].Series[1].Values) = 0

\* C11: when both queries are answered successfully without a data point, the
\* result has RequestCount 0, the zero LastCalled and no failure descriptor.
C11_EmptyDataIsNoError ==
  (/\ CallReturned
   /\ FilterCH1OrRTF(TheApp)
   /\ EmptyData(oracle[1].lc)
   /\ EmptyData(oracle[1].rc)) =>
    /\ res[0].RequestCount = 0
    /\ IsZero(res[0].LastCalled)
    /\ res[0].Err = Nil

C11_Witness ==
  /\ CallReturned
  /\ TheApp.Type = "MC"
  /\ TheApp.Subtype = "runtime-fabric"
  /\ oracle[1].lc = RespEmptySeries
  /\ oracle[1].rc = RespEmptySeries
  /\ queries[<<1, "lc">>] = 1
  /\ queries[<<1, "rc">>] = 1
  /\ res[0].Err = Nil
  /\ res[0].RequestCount = 0

RECURSIVE SumHalves(_)
\* The sum of the numeric second fields of the rows, in halves.
SumHalves(values) ==
  IF values = << >> THEN 0
  ELSE SumHalves(Tail(values))
         + (IF Head(values)[2].ok THEN Head(values)[2].h ELSE 0)

\* The answer to the request-count query holds no negative value.
NoNegativeCount(resp) ==
  \A i \in 1 .. Len(resp.Results) :
    \A j \in 1 .. Len(resp.Results[i].Series) :
      \A k \in 1 .. Len(resp.Results[i].Series[j].Values) :
        resp.Results[i].Series[j].Values[k][2].h >= 0

\* C12: when the request-count query succeeds (its values being counts, none
\* negative), RequestCount is the sum of the second fields of the rows of the
\* first series of the first result (the integer part of that sum, the count
\* being an integer), and 0 without such a series.
C12_SumOfFirstSeries ==
  (/\ CallReturned
   /\ FilterCH1OrRTF(TheApp)
   /\ ~oracle[1].rc.err
   /\ NoNegativeCount(oracle[1].rc)) =>
    res[0].RequestCount =
      IF Len(oracle[1].rc.Results) > 0 /\ Len(oracle[1].rc.Results[1].Series) > 0
        THEN ToInt([ok |-> TRUE,
                    h |-> SumHalves(oracle[1].rc.Results[1].Series[1].Values)])
        ELSE 0

\* The filter has been applied to the collection.
Filtered == cmdPc \in {"print", "done"}
\* The positions of the results the selector keeps.
KeptBy(selector) ==
  {k \in 1 .. Len(results) :
     \/ selector = "all"
     \/ selector = "nonempty" /\ results[k].RequestCount > 0
     \/ selector = "empty" /\ results[k].RequestCount = 0}
RECURSIVE IsSubseq(_, _)
\* s can be obtained from t by deleting elements.
IsSubseq(s, t) ==
  IF s = << >> THEN TRUE
  ELSE IF t = << >> THEN FALSE
  ELSE IF Head(s) = Head(t) THEN IsSubseq(Tail(s), Tail(t))
  ELSE IsSubseq(s, Tail(t))

\* C13: with selector nonempty the output holds exactly the results whose
\* RequestCount is > 0, with selector empty exactly those whose RequestCount
\* is 0, and with selector all it is the collection itself.
C13_FilterSelectors ==
  (Filtered /\ flags.filter \in {"all", "nonempty", "empty"}) =>
    /\ Len(finalResults) = Cardinality(KeptBy(flags.filter))
    /\ \A k \in KeptBy(flags.filter) :
         \E j \in 1 .. Len(finalResults) : finalResults[j] = results[k]
    /\ \A j \in 1 .. Len(finalResults) :
         \E k \in KeptBy(flags.filter) : finalResults[j] = results[k]
    /\ flags.filter = "all" => finalResults = results

C13_Witness ==
  /\ Filtered
  /\ flags.filter = "nonempty"
  /\ Len(results) = 3
  /\ results[1].RequestCount = 0
  /\ results[2].RequestCount = 5
  /\ results[3].RequestCount = 0
  /\ finalResults = <<results[2]>>

\* C14: the output of the filter is a subsequence of its input (same relative
\* order, nothing modified or duplicated), the input collection is not changed
\* by the filter, and filtering the output again gives the output.
C14_FilterPureStable ==
  /\ [](Filtered =>
         /\ IsSubseq(finalResults, results)
         /\ filterAppResults(finalResults, flags.filter) = finalResults)
  /\ [][cmdPc = "filter" => results' = results]_vars

C14_Witness ==
  /\ Filtered
  /\ ToLower(flags.filter) = "empty"
  /\ Len(results) = MaxResults
  /\ Len(finalResults) = 2
  /\ finalResults[1].AppID > finalResults[2].AppID
  /\ results[1].RequestCount # 0

\* The messages printed so far.
Printed(msg) == \E k \in 1 .. Len(out) : out[k] = msg
NoQueries == \A k \in AppIDs \X {"lc", "rc"} : queries[k] = 0
NoWorker == \A w \in Workers : wpc[w] = "idle"
SchedulerNotInvoked ==
  /\ mainPc = "idle"
  /\ NoWorker
  /\ sem = 0
  /\ wg = 0
  /\ tickBuf = 0
  /\ results = << >>

\* C15: a batch run (no --app, at least one application found) ends with the
\* result table printed, whatever the filter and also when every item failed,
\* and the row of each failed item shows the item's error text.
C15_BatchAlwaysPrintsTable ==
  (cmdPc = "done" /\ flags.app = 0 /\ Len(apps) >= 1) =>
    /\ Printed("table")
    /\ \A j \in 1 .. Len(table) :
         finalResults[j].Err # Nil =>
           ("Err" \in DOMAIN table[j] /\ table[j].Err = finalResults[j].Err)

\* A precondition of the command fails: --org or --env is empty, or the
\* session is not valid (configuration incomplete, or token expired).
PreconditionFails ==
  \/ flags.org = ""
  \/ flags.env = ""
  \/ ~Complete(viper)
  \/ now > viper.expiresAt[1]

\* C16: when a precondition fails the command prints one diagnostic and
\* stops: the directory is not listed, the scheduler is not invoked,
\* monitorSingleApp is not called and no query is sent.
C16_PreconditionStops ==
  (cmdPc # "off" /\ PreconditionFails) =>
    /\ cmdPc \in {"flags", "client", "done"}
    /\ cmdPc = "done" => (out = <<"need_flags">> \/ out = <<"err_client">>)
    /\ dirCalls = 0
    /\ apps = << >>
    /\ SchedulerNotInvoked
    /\ msaCalls = 0
    /\ NoQueries

C16_Witness ==
  /\ cmdPc = "done"
  /\ out = <<"err_client">>
  /\ client.err = ErrExpired
  /\ flags.app = 0
  /\ Len(directory.data) = MaxDirApps
  /\ dirCalls = 0

\* C17: every client GetClientFromContext returns without error holds a
\* token that is not expired at the instant of the call, after any sequence
\* of connects, earlier calls and clock advances of the process.
C17_ReturnedClientNotExpired ==
  (client.err = Nil /\ client.client.set) => client.at <= client.client.expiresAt

\* C18: with --app the directory is not queried, monitorAppsConcurrently is
\* not invoked (no worker, no slot, no tick), and monitorSingleApp is invoked
\* once, for that id, when the run reaches its end with valid preconditions.
C18_SingleItemMode ==
  (cmdPc # "off" /\ flags.app # 0) =>
    /\ dirCalls = 0
    /\ SchedulerNotInvoked
    /\ msaCalls <= 1
    /\ (cmdPc = "done" /\ ~PreconditionFails) =>
         /\ msaCalls = 1
         /\ res[0].AppID = flags.app

C18_Witness ==
  /\ cmdPc = "done"
  /\ flags.app = 2
  /\ mode = "single"
  /\ msaCalls = 1
  /\ res[0].AppID = 2
  /\ Len(directory.data) = MaxDirApps

C20_EmptyListNoWork ==
  /\ (cmdPc = "off" /\ mode = "batch" /\ N = 0) =>
       /\ NoWorker
       /\ sem = 0
       /\ wg = 0
       /\ lastGap = resolution
       /\ msaCalls = 0
       /\ NoQueries
       /\ results = << >>
  /\ (cmdPc = "done" /\ flags.app = 0 /\ dirCalls = 1 /\ ~directory.err
        /\ Len(apps) = 0) =>
       /\ out = <<"client_info", "no_apps">>
       /\ SchedulerNotInvoked
       /\ msaCalls = 0
       /\ NoQueries

C20_Witness ==
  /\ cmdPc = "off"
  /\ mode = "batch"
  /\ N = 0
  /\ Returned
  /\ results = << >>
  /\ tickBuf = 1

\* The number a %d text denotes, and whether the text is well formed (digits
\* 0..9, no leading zero, no "-0").
RECURSIVE DigitsValue(_)
DigitsValue(ds) ==
  IF ds = << >> THEN 0
  ELSE 10 * DigitsValue(SubSeq(ds, 1, Len(ds) - 1)) + ds[Len(ds)]
DecimalOf(text, n) ==
  /\ Len(text.digits) >= 1
  /\ \A k \in 1 .. Len(text.digits) : text.digits[k] \in 0 .. 9
  /\ Len(text.digits) > 1 => text.digits[1] # 0
  /\ text.neg => DigitsValue(text.digits) # 0
  /\ n = (IF text.neg THEN 0 - 1 ELSE 1) * DigitsValue(text.digits)
\* A printed row or exported record renders the result r as C21 says.
RendersResult(row, r) ==
  /\ DecimalOf(row.RequestCount, r.RequestCount)
  /\ (row.LastCalled.text = "No data") <=> IsZero(r.LastCalled)
  /\ ~IsZero(r.LastCalled) =>
       /\ row.LastCalled.text = "RFC1123"
       /\ row.LastCalled.sec = r.LastCalled.ns \div 1000000000

\* C21: in the summary table and in the exported file, every result appears
\* in its own row, in order, with a zero LastCalled rendered as "No data" and
\* any other instant as a time, never as "No data", and with RequestCount
\* rendered as its decimal number (0 as "0").
C21_RenderNoDataAndCount ==
  /\ Printed("table") =>
       /\ Len(table) = Len(finalResults)
       /\ \A k \in 1 .. Len(table) : RendersResult(table[k], finalResults[k])
  /\ csv.header # << >> =>
       /\ Len(csv.records) = Len(finalResults)
       /\ \A k \in 1 .. Len(csv.records) :
            RendersResult(csv.records[k], finalResults[k])

\* Both outputs are written for two results: one without data (count 0, zero
\* time) and one called at the epoch with a count of several digits.
C21_Witness ==
  /\ Printed("table")
  /\ csv.header = CsvHeader
  /\ Len(finalResults) = 2
  /\ finalResults[1].RequestCount = 0 /\ IsZero(finalResults[1].LastCalled)
  /\ finalResults[2].RequestCount = 123 /\ finalResults[2].LastCalled = Unix(0)
  /\ table[1].LastCalled.text = "No data" /\ table[1].RequestCount.digits = <<0>>
  /\ csv.records[2].RequestCount.digits = <<1, 2, 3>>
  /\ csv.records[2].LastCalled.text = "RFC1123"

\* C22: after a run of connect that succeeded against a control plane, a next
\* run that omits the credentials and the control plane flag calls NewClient
\* with the same client id, client secret and control plane.
C22_OmittedFlagsReuseControlPlane ==
  [][(/\ conn.msg = "connected"
      /\ conn'.runs = conn.runs + 1
      /\ conn'.flags = NoConnect.flags)
       => conn'.call = conn.call]_vars

\* C29: a run in which NewClient fails, at the authentication or at the
\* retrieval of the InfluxDB id, reports the error and leaves the persisted
\* configuration and the process-wide client as they were; the two change
\* only in a run in which both steps succeeded, and then to that run's
\* client.
C29_FailedNewClientStoresNothing ==
  [][conn'.runs = conn.runs + 1 =>
       /\ conn'.msg \in {ErrAuth, ErrInflux} =>
            (viper' = viper /\ globalClient' = globalClient)
       /\ (viper' # viper \/ globalClient' # globalClient) =>
            /\ conn'.msg = "connected"
            /\ globalClient'.set
            /\ globalClient'.ServerIndex = conn'.call[1].serverIndex
            /\ viper'.clientId = conn'.call[1].clientId
            /\ viper'.accessToken = globalClient'.AccessToken]_vars

\* A session of the EU control plane exists, and a second run against the US
\* control plane with other credentials failed at the InfluxDB id: the
\* session is still the first one.
C29_Witness ==
  /\ conn.runs = 2
  /\ conn.msg = ErrInflux
  /\ conn.call[1].serverIndex = 0
  /\ conn.call[1].clientId = "id1"
  /\ globalClient.set
  /\ globalClient.ServerIndex = 1
  /\ viper.serverIndex = 1
  /\ viper.clientId = "id0"

\* The queries sent for the application with the given id.
QueriesOf(q, id) == q[<<id, "lc">>] + q[<<id, "rc">>]
\* Worker w moves from one place to the next in this step.
Moves(w, from, to) == wpc[w] = from /\ wpc'[w] = to

\* C23: a worker goes through its steps in one order: it takes a slot, then
\* takes one tick while it holds the slot, then sends its queries (at most
\* the two of its own application), then appends its result to the channel,
\* then gives the slot back; and the slots, the ticks, the queries and the
\* channel change in no other way while the workers run.
C23_WorkerStepOrder ==
  [][/\ \A w \in Workers :
          wpc'[w] # wpc[w] =>
            \/ Moves(w, "idle", "acquire")
            \/ Moves(w, "acquire", "tick") /\ sem' = sem + 1
                 /\ sem' <= concurrencyLimit /\ tickBuf' >= tickBuf
                 /\ queries' = queries
            \/ Moves(w, "tick", "run") /\ tickBuf = 1 /\ tickBuf' = 0
                 /\ sem' = sem /\ queries' = queries
            \/ Moves(w, "run", "send") /\ sem' = sem /\ tickBuf' >= tickBuf
                 /\ QueriesOf(queries', wapp[w].ID)
                      \in QueriesOf(queries, wapp[w].ID) .. QueriesOf(queries, wapp[w].ID) + 2
                 /\ \A i \in AppIDs \ {wapp[w].ID} :
                      QueriesOf(queries', i) = QueriesOf(queries, i)
            \/ Moves(w, "send", "release") /\ sem' = sem
                 /\ resultsCh' = resultsCh (+) SetToBag({res[w]})
                 /\ queries' = queries
            \/ Moves(w, "release", "wgdone") /\ sem' = sem - 1
                 /\ resultsCh' = resultsCh /\ queries' = queries
            \/ Moves(w, "wgdone", "done") /\ sem' = sem
     /\ sem' # sem =>
          \E w \in Workers : Moves(w, "acquire", "tick") \/ Moves(w, "release", "wgdone")
     /\ tickBuf' < tickBuf => \E w \in Workers : Moves(w, "tick", "run")
     /\ queries' # queries => \E w \in Workers : Moves(w, "run", "send")
     /\ BagCardinality(resultsCh') > BagCardinality(resultsCh) =>
          \E w \in Workers : Moves(w, "send", "release")]_vars

\* One worker has gone through all its steps and sent both its queries,
\* while another holds a slot and waits for a tick that has not come.
C23_Witness ==
  /\ N >= 2
  /\ wpc[1] = "done"
  /\ QueriesOf(queries, wapp[1].ID) = 2
  /\ wpc[2] = "tick"
  /\ tickBuf = 0
  /\ sem = 1
  /\ QueriesOf(queries, wapp[2].ID) = 0

\* The workers that have started and not finished, the workers that hold a
\* slot, and the workers blocked at the semaphore.
Live == {w \in Workers : wpc[w] \notin {"idle", "done"}}
HoldingSlot == {w \in Workers : wpc[w] \in {"tick", "run", "send", "release"}}
WaitingForSlot == {w \in Workers : wpc[w] = "acquire"}

\* C24 (as stated): at most 5 workers are live at any time.
C24_AtMostFiveLive == Cardinality(Live) <= concurrencyLimit

\* C24 (amended): every application's worker is started by the spawn loop
\* without waiting for a slot, so that up to len(apps) workers are live; at
\* most 5 of them hold a slot, and the live workers beyond those are blocked
\* at the semaphore or past their release.
C24_AtMostFiveHoldSlot ==
  /\ Cardinality(HoldingSlot) <= concurrencyLimit
  /\ (mainPc # "loop" \/ spawnIdx > N) => \A w \in 1 .. N : wpc[w] # "idle"
  /\ \A w \in Live \ HoldingSlot : wpc[w] \in {"acquire", "wgdone"}
  /\ Cardinality(Live) > concurrencyLimit =>
       (WaitingForSlot # {} \/ \E w \in Live : wpc[w] = "wgdone")

\* Six workers are live: five hold a slot and the sixth waits for one.
C24_Witness ==
  /\ Cardinality(Live) = 6
  /\ Cardinality(HoldingSlot) = concurrencyLimit
  /\ Cardinality(WaitingForSlot) = 1

\* C25: the results channel never holds more than len(apps) results, and a
\* worker can always take its next step unless it waits for a slot while all
\* five are taken, or for a tick that has not come: in particular a worker
\* that has its result can append it at once, and a worker past the append
\* can release its slot and finish.
C25_WorkerBlocksOnlyOnSlotOrTick ==
  /\ BagCardinality(resultsCh) <= N
  /\ \A w \in Workers :
       /\ wpc[w] = "run" => ENABLED Monitor(w)
       /\ wpc[w] = "send" => ENABLED Send(w)
       /\ wpc[w] = "release" => ENABLED Release(w)
       /\ wpc[w] = "wgdone" => ENABLED WgDone(w)
       /\ (wpc[w] = "acquire" /\ ~ENABLED Acquire(w)) => sem = concurrencyLimit
       /\ (wpc[w] = "tick" /\ ~ENABLED Dispatch(w)) => tickBuf = 0

\* The last of six workers is about to append while the channel holds the
\* five other results, none of them drained yet.
C25_Witness ==
  /\ N = 6
  /\ BagCardinality(resultsCh) = N - 1
  /\ \E w \in Workers : wpc[w] = "send"
  /\ results = << >>

\* Worker w has acquired its slot; worker w has released it.
Acquired(w) == wpc[w] \in {"tick", "run", "send", "release", "wgdone", "done"}
Released(w) == wpc[w] \in {"wgdone", "done"}

\* C28: the semaphore holds as many elements as there are workers that have
\* acquired a slot and not released it; a worker's acquire adds one element
\* and its release removes one, each happens once per worker and the release
\* after the acquire; when monitorAppsConcurrently returns every worker has
\* done both and the semaphore is empty.
C28_SlotAccounting ==
  /\ [](/\ sem = Cardinality({w \in Workers : Acquired(w) /\ ~Released(w)})
        /\ Returned => (sem = 0 /\ \A w \in 1 .. N : Acquired(w) /\ Released(w)))
  /\ [][\A w \in Workers :
          /\ Acquired(w) => Acquired(w)'
          /\ Released(w) => Released(w)'
          /\ (~Acquired(w) /\ Acquired(w)') => (sem' = sem + 1 /\ ~Released(w)')
          /\ (~Released(w) /\ Released(w)') => (sem' = sem - 1 /\ Acquired(w))]_vars

\* The scheduler has returned from a run over six applications, in which
\* the workers had to take turns on the five slots.
C28_Witness ==
  /\ Returned
  /\ N = 6
  /\ sem = 0
  /\ Len(results) = 6

\* An application is running, as C26 defines it for each kind.
IsRunning(e) ==
  CASE e.app.Type = "CLOUDHUB" -> e.LastReportedStatus = "STARTED"
    [] e.app.Type = "MC" /\ e.app.Subtype = "runtime-fabric" -> e.Status = "RUNNING"
    [] OTHER -> TRUE
\* The directory has been listed without a type filter.
ListedAll ==
  /\ cmdPc \in {"monitor", "done"}
  /\ dirCalls = 1
  /\ ~directory.err
  /\ ToLower(flags.appType) = "all"

C27_RequestCountNonNegative ==
  \A p \in Procs : res[p].RequestCount >= 0

\* C30: the pages are requested at the offsets 0, 250, 500, ... in order;
\* while the function runs every page received so far held 250 items; when
\* it returns without error the last page received is the first with fewer
\* than 250 items and the result is the concatenation of the pages in the
\* order of the requests, which is the whole collection in order; when a
\* request fails it returns the error and no item.
C30_Pagination ==
  /\ \A k \in 1 .. Len(exch.offsets) : exch.offsets[k] = 250 * (k - 1)
  /\ exch.pc = "loop" =>
       /\ Len(exch.result) = 250 * Len(exch.offsets)
       /\ Len(exch.result) <= exch.total
  /\ (exch.pc = "returned" /\ exch.err = Nil) =>
       /\ Len(exch.offsets) = (exch.total \div 250) + 1
       /\ exch.ret = [i \in 1 .. exch.total |-> i]
  /\ (exch.pc = "returned" /\ exch.err # Nil) =>
       /\ exch.ret = << >>
       /\ Len(exch.offsets) <= (exch.total \div 250) + 1

\* A collection of exactly two full pages: the third page is requested, is
\* empty and ends the listing with the 500 items.
C30_Witness ==
  /\ exch.pc = "returned"
  /\ exch.err = Nil
  /\ exch.total = 500
  /\ exch.offsets = <<0, 250, 500>>
  /\ Len(exch.ret) = 500
  /\ exch.ret[251] = 251

====
